---------------------------- MODULE Spec2Model ----------------------------
(***************************************************************************)
(* Model of the codepress SWC plugin (codepress-swc-plugin/src/lib.rs):    *)
(* the provenance tracer (trace_expr, rank_candidates, aggregate_kinds),   *)
(* the symbol reference resolver, Pass 1 (CodePressTransform), Pass 2      *)
(* (HoistAndElide) and the process-wide GLOBAL_ATTRIBUTES_ADDED flag.      *)
(*                                                                         *)
(* Strings built by format! are modelled as records of their parts, so     *)
(* that two strings are equal exactly when their parts are.  An            *)
(* Option<T> is a sequence of length 0 (None) or 1 (Some).                 *)
(***************************************************************************)
EXTENDS Integers, Sequences, FiniteSets, TLC

VARIABLES
    \* ---- tracer / symbol-ref machine (one trace root) ----
    tcase,      \* the traced input: [bindings, expr, elem]; elem is the element
                \* the expression sits on: [ospan, span]
    tphase,     \* "trace" | "refs" | "done", or "aborted" on a stack overflow
    twork,      \* pending work of trace_expr: calls and deferred pushes
    chain,      \* chain: &mut Vec<ProvNode>
    seen,       \* seen: &mut HashSet<Id>
    tdepth,     \* depth of the trace_expr call that acted last
    swork,      \* pending work of collect_symbol_refs_from_expr
    symout,     \* out: &mut Vec<SymbolRef>
    module_file,\* CodePressTransform.module_file
    cands,      \* candidates: the ranked list of the element, once built
    \* ---- whole-file pipeline (process_transform), file after file ----
    ppc,        \* position in process_transform: "new" | "pass1" | "pass2" |
                \* "return", and "done" after the last file
    config,     \* the plugin configuration: [repo_name, branch_name, skip_components]
    files,      \* the programs of the build, in processing order
    fidx,       \* index of the file being transformed
    program,    \* the module being rewritten: its JSX, item after item
    bindings,   \* CodePressTransform.bindings
    outputs,    \* the returned programs, per file
    GLOBAL_ATTRIBUTES_ADDED,
    \* ---- concurrent file transforms sharing the flag ----
    thr,        \* per concurrent transform: [pc, els, idx, loaded, out]
    \* ---- Pass 1 call by call: the visitor's frames and host_attr_stack ----
    vroot,      \* the JSX root the visitor walks
    vframes,    \* the open calls of visit_mut_jsx_element, outermost first:
                \* [el, next, is_host_pre]; el indexes the elements of vroot
                \* (0: the module), next is the child to visit next
    host_attr_stack, \* CodePressTransform.host_attr_stack: each pointer is
                \* kept as the index of the element whose attrs it points to
    vreplaced   \* the elements that mem::replace / *node = ... has moved

tvars == <<tcase, tphase, twork, chain, seen, tdepth, swork, symout, module_file, cands>>
pvars == <<ppc, config, files, fidx, program, bindings, outputs,
           GLOBAL_ATTRIBUTES_ADDED>>
cvars == <<thr>>
svars == <<vroot, vframes, host_attr_stack, vreplaced>>
vars == <<tvars, pvars, cvars, svars>>

-----------------------------------------------------------------------------
(* Options *)
None == << >>
Some(x) == <<x>>
IsSome(o) == Len(o) > 0
Unwrap(o) == o[1]

\* F(v), with v evaluated once and bound as a value: TLC otherwise
\* re-evaluates a LET name or an operator argument at each of its uses when
\* it evaluates without caching
Eval(F(_), v) == CHOOSE y \in {F(x) : x \in {v}} : TRUE

\* the concatenation of a sequence of sequences
RECURSIVE FlatSeq(_)
FlatSeq(ss) ==
    LET halves(s) ==
            IF Len(s) = 0 THEN << >>
            ELSE IF Len(s) = 1 THEN s[1]
            ELSE FlatSeq(SubSeq(s, 1, Len(s) \div 2))
                 \o FlatSeq(SubSeq(s, (Len(s) \div 2) + 1, Len(s)))
    IN  Eval(halves, ss)

-----------------------------------------------------------------------------
(* Spans, the source map and file names *)

\* bytes per source line of the modelled source map
LineLen == 10

DUMMY_SP == [lo |-> 0, hi |-> 0]
Sp(lo, hi) == [lo |-> lo, hi |-> hi]
is_dummy(s) == s.lo = 0 /\ s.hi = 0

\* process_transform always supplies a source map
source_map == TRUE

\* cm.lookup_char_pos(pos).line
lookup_line(pos) == ((pos - 1) \div LineLen) + 1

\* the file name the source map reports, as path segments
RawFileName == <<"[project]/", "app.tsx">>

BundlerPrefixes == {"turbopack/[project]/", "/turbopack/[project]/", "[project]/"}

normalize_filename(f) ==
    LET s == IF Len(f) > 0 /\ Head(f) \in {"file:///", "file://"} THEN Tail(f) ELSE f
    IN  IF Len(s) > 0 /\ Head(s) \in BundlerPrefixes THEN Tail(s) ELSE s

\* identity while the XOR encoding is switched off
xor_encode(s) == s

UnknownLoc == [file |-> <<"unknown">>, lines |-> <<0, 0>>]

\* "file:startLine-endLine"
span_file_lines(s) ==
    IF is_dummy(s) THEN UnknownLoc
    ELSE IF source_map
         THEN [file |-> normalize_filename(RawFileName),
               lines |-> <<lookup_line(s.lo), lookup_line(s.hi)>>]
         ELSE UnknownLoc

\* returns the file and the new module_file
file_from_span(mf, s) ==
    IF is_dummy(s) THEN [file |-> None, mf |-> mf]
    ELSE IF source_map
         THEN LET f == normalize_filename(RawFileName)
              IN  [file |-> Some(f), mf |-> IF IsSome(mf) THEN mf ELSE Some(f)]
         ELSE [file |-> None, mf |-> mf]

current_file(mf) == IF IsSome(mf) THEN Unwrap(mf) ELSE <<"unknown">>

\* Some("start-end") or None
get_line_info(opening_span, parent_span) ==
    IF is_dummy(opening_span) THEN None
    ELSE IF source_map
         THEN LET end_span == IF IsSome(parent_span) THEN Unwrap(parent_span)
                              ELSE opening_span
              IN  IF is_dummy(end_span) THEN None
                  ELSE Some(<<lookup_line(opening_span.lo), lookup_line(end_span.hi)>>)
         ELSE None

\* the string value of the codepress-data-fp attribute
encoded_path_value(filename, opening_span, parent_span) ==
    LET encoded_path == xor_encode(normalize_filename(filename))
        li == get_line_info(opening_span, parent_span)
    IN  IF IsSome(li) THEN [file |-> encoded_path, lines |-> Unwrap(li)]
        ELSE [file |-> encoded_path, lines |-> << >>]

-----------------------------------------------------------------------------
(* Expressions (swc Expr), identifiers carry their syntax context *)

Num(sp) == [kind |-> "Num", span |-> sp]
Str(sp) == [kind |-> "Str", span |-> sp]
OtherLit(sp) == [kind |-> "OtherLit", span |-> sp]
Ident(sym, ctxt, sp) == [kind |-> "Ident", sym |-> sym, ctxt |-> ctxt, span |-> sp]
PIdent(sym) == [k |-> "Ident", sym |-> sym]
PComputed(e) == [k |-> "Computed", expr |-> e]
PPrivate == [k |-> "Private"]
Member(obj, prop, sp) == [kind |-> "Member", obj |-> obj, prop |-> prop, span |-> sp]
Arg(e) == [spread |-> FALSE, expr |-> e]
SpreadArg(e) == [spread |-> TRUE, expr |-> e]
Call(callee, args, sp) == [kind |-> "Call", callee |-> callee, args |-> args, span |-> sp]
New(callee, args, sp) == [kind |-> "New", callee |-> callee, args |-> args, span |-> sp]
Tpl(exprs, sp) == [kind |-> "Tpl", exprs |-> exprs, span |-> sp]
Bin(l, r, sp) == [kind |-> "Bin", op |-> "Add", left |-> l, right |-> r, span |-> sp]
Cond(t, c, a, sp) == [kind |-> "Cond", test |-> t, cons |-> c, alt |-> a, span |-> sp]
Unary(a, sp) == [kind |-> "Unary", op |-> "Bang", arg |-> a, span |-> sp]
Update(a, sp) == [kind |-> "Update", arg |-> a, span |-> sp]
TaggedTpl(tag, exprs, sp) == [kind |-> "TaggedTpl", tag |-> tag, exprs |-> exprs, span |-> sp]
KeyValue(key, keysp, v) ==
    [k |-> "KeyValue", key |-> key, computed |-> << >>, keyspan |-> keysp, value |-> v]
KeyValueComputed(ke, keysp, v) ==
    [k |-> "KeyValue", key |-> "<computed>", computed |-> <<ke>>, keyspan |-> keysp, value |-> v]
SeqExpr(exprs, sp) == [kind |-> "Seq", exprs |-> exprs, span |-> sp]
TsAs(e, sp) == [kind |-> "TsAs", expr |-> e, span |-> sp]
Shorthand(id) == [k |-> "Shorthand", id |-> id]
Object(props, sp) == [kind |-> "Object", props |-> props, span |-> sp]
Array(elems, sp) == [kind |-> "Array", elems |-> elems, span |-> sp]
Arrow(sp) == [kind |-> "Arrow", span |-> sp]
StrV(v, sp) == [kind |-> "Str", value |-> v, span |-> sp]
NumV(v, sp) == [kind |-> "Num", value |-> v, span |-> sp]
Paren(e, sp) == [kind |-> "Paren", expr |-> e, span |-> sp]
OptMember(m, sp) == [kind |-> "OptChain", base |-> [k |-> "Member", m |-> m], span |-> sp]
OptCall(callee, sp) == [kind |-> "OptChain", base |-> [k |-> "Call", callee |-> callee], span |-> sp]
SpreadProp(e) == [k |-> "Spread", expr |-> e]

to_id(i) == <<i.sym, i.ctxt>>

expr_span(e) == e.span

(* Bindings: HashMap<Id, Binding> as a function on a set of ids *)
Binding(def, init, import, fnb) ==
    [def_span |-> def, init |-> init, import |-> import, fn_body_span |-> fnb]

\* (mutant) a table that answers a missing id with a binding whose
\* initializer is of no known shape
bindings_get_or_unknown(b, id) ==
    IF id \in DOMAIN b THEN Some(b[id])
    ELSE Some([def_span |-> DUMMY_SP,
               init |-> Some([kind |-> "Arrow", span |-> DUMMY_SP]),
               import |-> None, fn_body_span |-> None])

bindings_get(b, id) == IF id \in DOMAIN b THEN Some(b[id]) ELSE None

EmptyMap == [x \in {} |-> 0]
MapInsert(m, key, v) == [x \in (DOMAIN m) \cup {key} |-> IF x = key THEN v ELSE m[x]]

-----------------------------------------------------------------------------
(* Provenance nodes and trace_expr *)

MaxDepth == 8
MaxChain == 128

NLiteral(sp, vk) == [kind |-> "Literal", span |-> sp, value_kind |-> vk]
NIdent(name, sp) == [kind |-> "Ident", name |-> name, span |-> sp]
NInit(sp) == [kind |-> "Init", span |-> sp]
NImport(im, sp) == [kind |-> "Import", source |-> im.source, imported |-> im.imported, span |-> sp]
NMember(sp) == [kind |-> "Member", span |-> sp]
NObjectProp(key, sp) == [kind |-> "ObjectProp", key |-> key, span |-> sp]
NArrayElem(idx, sp) == [kind |-> "ArrayElem", index |-> idx, span |-> sp]
NCall(callee, cs, csp, fd) ==
    [kind |-> "Call", callee |-> callee, callsite |-> cs, callee_span |-> csp, fn_def_span |-> fd]
NCtor(callee, sp) == [kind |-> "Ctor", callee |-> callee, span |-> sp]
NOp(op, sp) == [kind |-> "Op", op |-> op, span |-> sp]
NEnv(key, sp) == [kind |-> "Env", key |-> key, span |-> sp]
NUnknown(sp) == [kind |-> "Unknown", span |-> sp]

\* process.env.X and import.meta.env.X
detect_env_member(m) ==
    IF m.obj.kind = "Member"
    THEN LET obj == m.obj
         IN  IF /\ obj.obj.kind = "Ident" /\ obj.prop.k = "Ident"
                /\ obj.obj.sym = "process" /\ obj.prop.sym = "env"
                /\ m.prop.k = "Ident"
             THEN Some(m.prop.sym)
             ELSE IF /\ obj.obj.kind = "Member" /\ obj.prop.k = "Ident"
                     /\ obj.obj.obj.kind = "Ident" /\ obj.obj.prop.k = "Ident"
                     /\ obj.obj.obj.sym = "import" /\ obj.obj.prop.sym = "meta"
                     /\ obj.prop.sym = "env" /\ m.prop.k = "Ident"
                  THEN Some(m.prop.sym)
                  ELSE None
    ELSE None

\* pending work of the recursion: a recursive call, a push the caller makes
\* after a recursive call, or the caller's loop over its operands standing at
\* operand i
WCall(e, d) == [k |-> "call", expr |-> e, depth |-> d]
WPush(n, d) == [k |-> "push", node |-> n, depth |-> d]
WLoop(e, i, d) == [k |-> "loop", expr |-> e, idx |-> i, depth |-> d]

\* (mutant) a lookup by the bare name
trace_lookup_by_name(b, i) ==
    LET ids == {id \in DOMAIN b : id[1] = i.sym}
    IN  IF ids = {} THEN None ELSE Some(b[CHOOSE id \in ids : TRUE])

\* the binding lookup of trace_expr: keyed by (sym, ctxt)
trace_lookup(b, i) == bindings_get(b, to_id(i))

\* (mutant) a definition span for callees bound by a function declaration only
callee_info_functions_only(b, c) ==
    IF c.callee.kind = "Ident"
    THEN LET bd == trace_lookup(b, c.callee)
             def == IF IsSome(bd) /\ IsSome(Unwrap(bd).fn_body_span)
                    THEN Some(span_file_lines(Unwrap(Unwrap(bd).fn_body_span)))
                    ELSE None
         IN  <<c.callee.sym, span_file_lines(c.callee.span), def>>
    ELSE IF c.callee.kind = "Member"
         THEN <<"<member>", span_file_lines(c.callee.span), None>>
         ELSE <<"<expr>", span_file_lines(c.span), None>>

\* (callee name, callee span, fn_def_span) of a call
callee_info(b, c) ==
    IF c.callee.kind = "Ident"
    THEN LET bd == trace_lookup(b, c.callee)
             def == IF IsSome(bd)
                    THEN LET bb == Unwrap(bd)
                         IN  Some(span_file_lines(IF IsSome(bb.fn_body_span)
                                                  THEN Unwrap(bb.fn_body_span)
                                                  ELSE bb.def_span))
                    ELSE None
         IN  <<c.callee.sym, span_file_lines(c.callee.span), def>>
    ELSE IF c.callee.kind = "Member"
         THEN <<"<member>", span_file_lines(c.callee.span), None>>
         ELSE <<"<expr>", span_file_lines(c.span), None>>

ctor_callee(n) ==
    IF n.callee.kind = "Ident" THEN n.callee.sym
    ELSE IF n.callee.kind = "Member" THEN "<member>" ELSE "<expr>"

\* the operands a call of trace_expr loops over
loop_operands(e) ==
    CASE e.kind \in {"Call", "New"} -> e.args
      [] e.kind \in {"Tpl", "TaggedTpl"} -> e.exprs
      [] e.kind = "Object" -> e.props
      [] e.kind = "Array" -> e.elems
      [] OTHER -> << >>

\* One iteration of that loop: the node pushed (unguarded) and the recursive
\* call made for operand i.
loop_iter(e, i, d) ==
    LET x == loop_operands(e)[i]
    IN  CASE e.kind \in {"Call", "New"} ->
                IF x.spread THEN [now |-> << >>, then |-> << >>]
                ELSE [now |-> << >>, then |-> <<WCall(x.expr, d + 1)>>]
          [] e.kind \in {"Tpl", "TaggedTpl"} ->
                [now |-> << >>, then |-> <<WCall(x, d + 1)>>]
          [] e.kind = "Object" ->
                IF x.k = "KeyValue"
                THEN [now |-> <<NObjectProp(x.key, span_file_lines(x.keyspan))>>,
                      then |-> <<WCall(x.value, d + 1)>>]
                ELSE [now |-> << >>, then |-> << >>]
          [] e.kind = "Array" ->
                IF IsSome(x)
                THEN [now |-> <<NArrayElem(i - 1, span_file_lines(expr_span(Unwrap(x).expr)))>>,
                      then |-> <<WCall(Unwrap(x).expr, d + 1)>>]
                ELSE [now |-> << >>, then |-> << >>]

\* One call of trace_expr that passed its guard: the nodes it pushes before
\* its first recursive call (now) and the rest of its body in order (then).
trace_body(b, sn, e, d) ==
    CASE e.kind = "Num" -> [now |-> <<NLiteral(span_file_lines(e.span), "number")>>, then |-> << >>]
      [] e.kind = "Str" -> [now |-> <<NLiteral(span_file_lines(e.span), "string")>>, then |-> << >>]
      [] e.kind = "OtherLit" -> [now |-> <<NLiteral(span_file_lines(e.span), "other")>>, then |-> << >>]
      [] e.kind = "Ident" ->
            LET idn == NIdent(e.sym, span_file_lines(e.span))
                bd == trace_lookup(b, e)
            IN  IF to_id(e) \in sn \/ ~IsSome(bd)
                THEN [now |-> <<idn>>, then |-> << >>]
                ELSE LET bb == Unwrap(bd)
                         imp == IF IsSome(bb.import)
                                THEN <<WPush(NImport(Unwrap(bb.import),
                                                     span_file_lines(bb.def_span)), d)>>
                                ELSE << >>
                     IN  IF IsSome(bb.init)
                         THEN [now |-> <<idn, NInit(span_file_lines(expr_span(Unwrap(bb.init))))>>,
                               then |-> <<WCall(Unwrap(bb.init), d + 1)>> \o imp]
                         ELSE [now |-> <<idn>>, then |-> imp]
      [] e.kind = "Member" ->
            LET env == detect_env_member(e)
            IN  IF IsSome(env)
                THEN [now |-> <<NEnv(Unwrap(env), span_file_lines(e.span))>>, then |-> << >>]
                ELSE [now |-> <<NMember(span_file_lines(e.span))>>,
                      then |-> <<WCall(e.obj, d + 1)>> \o
                               (IF e.prop.k = "Computed"
                                THEN <<WCall(e.prop.expr, d + 1)>> ELSE << >>)]
      [] e.kind = "Call" ->
            LET ci == callee_info(b, e)
            IN  [now |-> <<NCall(ci[1], span_file_lines(e.span), ci[2], ci[3])>>,
                 then |-> <<WLoop(e, 1, d)>>]
      [] e.kind = "New" ->
            [now |-> <<NCtor(ctor_callee(e), span_file_lines(e.span))>>,
             then |-> <<WLoop(e, 1, d)>>]
      [] e.kind = "Tpl" ->
            [now |-> <<NOp(<<"template">>, span_file_lines(e.span))>>,
             then |-> <<WLoop(e, 1, d)>>]
      [] e.kind = "TaggedTpl" ->
            [now |-> <<NOp(<<"tagged-template">>, span_file_lines(e.span))>>,
             then |-> <<WCall(e.tag, d + 1), WLoop(e, 1, d)>>]
      [] e.kind = "Update" ->
            [now |-> <<NOp(<<"update">>, span_file_lines(e.span))>>,
             then |-> <<WCall(e.arg, d + 1)>>]
      [] e.kind = "Bin" ->
            [now |-> <<NOp(<<"binary", e.op>>, span_file_lines(e.span))>>,
             then |-> <<WCall(e.left, d + 1), WCall(e.right, d + 1)>>]
      [] e.kind = "Cond" ->
            [now |-> <<NOp(<<"cond">>, span_file_lines(e.span))>>,
             then |-> <<WCall(e.test, d + 1), WCall(e.cons, d + 1), WCall(e.alt, d + 1)>>]
      [] e.kind = "Unary" ->
            [now |-> <<NOp(<<"unary", e.op>>, span_file_lines(e.span))>>,
             then |-> <<WCall(e.arg, d + 1)>>]
      [] e.kind \in {"Object", "Array"} ->
            [now |-> << >>, then |-> <<WLoop(e, 1, d)>>]
      [] OTHER -> [now |-> <<NUnknown(span_file_lines(e.span))>>, then |-> << >>]

\* (mutant) the guard without its depth test
trace_guard_no_depth(d, ch) == Len(ch) > MaxChain

\* the guard at the head of trace_expr
trace_guard(d, ch) == d > MaxDepth \/ Len(ch) > MaxChain

\* One step of trace_expr on the state [work, chain]: the head of work is a
\* call (guard, then body), a deferred push, or one iteration of a loop.
trace_step(b, sn, st) ==
    LET it == Head(st.work)
        rest == Tail(st.work)
    IN  CASE it.k = "push" -> [work |-> rest, chain |-> Append(st.chain, it.node)]
          [] it.k = "loop" ->
                IF it.idx > Len(loop_operands(it.expr))
                THEN [work |-> rest, chain |-> st.chain]
                ELSE LET r == loop_iter(it.expr, it.idx, it.depth)
                     IN  [work |-> r.then \o <<WLoop(it.expr, it.idx + 1, it.depth)>> \o rest,
                          chain |-> st.chain \o r.now]
          [] it.k = "call" ->
                IF trace_guard(it.depth, st.chain)
                THEN [work |-> rest, chain |-> st.chain]
                ELSE LET r == trace_body(b, sn, it.expr, it.depth)
                     IN  [work |-> r.then \o rest, chain |-> st.chain \o r.now]

RECURSIVE trace_run(_, _, _)
trace_run(b, sn, st) ==
    IF Len(st.work) = 0 THEN st.chain
    ELSE LET go(nx) == trace_run(b, sn, nx)
         IN  Eval(go, trace_step(b, sn, st))

\* self.trace_expr(expr, &mut chain, 0, &mut seen) on a fresh chain and seen
trace_expr(b, e) == trace_run(b, {}, [work |-> <<WCall(e, 0)>>, chain |-> << >>])

-----------------------------------------------------------------------------
(* rank_candidates and aggregate_kinds *)

Candidate(target, reason) == [target |-> target, reason |-> reason]

\* (mutant) a ranker that knows literals and imports only
node_candidates_literal_import(n) ==
    CASE n.kind = "Literal" -> <<Candidate(n.span, "literal")>>
      [] n.kind = "Import" -> <<Candidate(n.span, "import")>>
      [] OTHER -> << >>

\* the candidates one provenance node contributes
node_candidates(n) ==
    CASE n.kind = "Literal" -> <<Candidate(n.span, "literal")>>
      [] n.kind = "Init" -> <<Candidate(n.span, "const-init")>>
      [] n.kind = "Member" -> <<Candidate(n.span, "member")>>
      [] n.kind \in {"ObjectProp", "ArrayElem"} -> <<Candidate(n.span, "structural")>>
      [] n.kind = "Call" ->
            <<Candidate(n.callsite, "callsite")>> \o
            (IF IsSome(n.fn_def_span)
             THEN <<Candidate(Unwrap(n.fn_def_span), "fn-def")>> ELSE << >>)
      [] n.kind = "Ctor" -> <<Candidate(n.span, "constructor")>>
      [] n.kind = "Import" -> <<Candidate(n.span, "import")>>
      [] n.kind = "Env" -> <<Candidate(n.span, "env")>>
      [] n.kind = "Fetch" -> <<Candidate(n.span, "fetch")>>
      [] OTHER -> << >>

\* format!("{}#{}", c.reason, c.target)
dedup_key(c) == <<c.reason, c.target>>

\* (mutant) no filtering
dedup_none(cs) == cs

\* out.into_iter().filter(|c| seen.insert(key)).collect(): an entry stays
\* when no earlier entry has its key
dedup_filter(cs) ==
    LET first(i) == \A j \in 1..(i - 1) : dedup_key(cs[j]) # dedup_key(cs[i])
        kept == SelectSeq([i \in 1..Len(cs) |-> i], first)
    IN  [k \in 1..Len(kept) |-> cs[kept[k]]]

rank_candidates(ch) ==
    Eval(dedup_filter, FlatSeq([i \in 1..Len(ch) |-> node_candidates(ch[i])]))

node_kind_tag(n) ==
    CASE n.kind = "Literal" -> "literal"
      [] n.kind = "Ident" -> "ident"
      [] n.kind = "Init" -> "init"
      [] n.kind = "Import" -> "import"
      [] n.kind = "Member" -> "member"
      [] n.kind = "ObjectProp" -> "object"
      [] n.kind = "ArrayElem" -> "array"
      [] n.kind = "Call" -> "call"
      [] n.kind = "Ctor" -> "ctor"
      [] n.kind = "Op" -> "op"
      [] n.kind = "Env" -> "env"
      [] n.kind = "Fetch" -> "fetch"
      [] n.kind = "Context" -> "context"
      [] n.kind = "Hook" -> "hook"
      [] OTHER -> "unknown"

\* the tags in the order a BTreeSet<&str> iterates them
KindOrder ==
    <<"array", "call", "context", "ctor", "env", "fetch", "hook", "ident", "import",
      "init", "literal", "member", "object", "op", "unknown">>

aggregate_kinds(ch) ==
    LET ks == {node_kind_tag(ch[i]) : i \in 1..Len(ch)}
        In(k) == k \in ks
    IN  SelectSeq(KindOrder, In)

-----------------------------------------------------------------------------
(* Symbol reference resolver *)

SymbolRef(file, local, path, span) ==
    [file |-> file, local |-> local, path |-> path, span |-> span]

\* one path segment; the text is "[seg]" when bracketed, else "seg" with a
\* leading "." unless the path is still empty
Seg(text, bracketed) == [seg |-> text, bracketed |-> bracketed]

\* the segment a member property appends, if any
prop_segment(prop) ==
    CASE prop.k = "Ident" -> <<Seg(<<"name", prop.sym>>, FALSE)>>
      [] prop.k = "Computed" ->
            IF prop.expr.kind = "Str" THEN <<Seg(<<"quoted", prop.expr.value>>, TRUE)>>
            ELSE IF prop.expr.kind = "Num" THEN <<Seg(<<"number", prop.expr.value>>, TRUE)>>
            ELSE IF prop.expr.kind = "Ident" THEN <<Seg(<<"name", prop.expr.sym>>, TRUE)>>
            ELSE << >>
      [] OTHER -> << >>

\* Option<(root Ident, path, root span)>
RECURSIVE member_to_root_and_path(_)
member_to_root_and_path(e) ==
    IF e.kind = "OptChain"
    THEN IF e.base.k = "Member"
         THEN member_to_root_and_path(e.base.m)
         ELSE LET r == member_to_root_and_path(e.base.callee)
              IN  IF IsSome(r)
                  THEN Some([root |-> Unwrap(r).root, path |-> << >>, span |-> Unwrap(r).span])
                  ELSE None
    ELSE IF e.kind = "Member"
    THEN LET base == IF e.obj.kind = "Ident"
                     THEN Some([root |-> e.obj, path |-> << >>, span |-> e.obj.span])
                     ELSE member_to_root_and_path(e.obj)
         IN  IF IsSome(base)
             THEN Some([root |-> Unwrap(base).root,
                        path |-> Unwrap(base).path \o prop_segment(e.prop),
                        span |-> Unwrap(base).span])
             ELSE None
    ELSE None

\* the direct sub-expressions of an expression, in source order
SubExprs(e) ==
    CASE e.kind = "Member" ->
            <<e.obj>> \o (IF e.prop.k = "Computed" THEN <<e.prop.expr>> ELSE << >>)
      [] e.kind \in {"Call", "New"} ->
            <<e.callee>> \o [i \in 1..Len(e.args) |-> e.args[i].expr]
      [] e.kind = "Tpl" -> e.exprs
      [] e.kind = "TaggedTpl" -> <<e.tag>> \o e.exprs
      [] e.kind = "Bin" -> <<e.left, e.right>>
      [] e.kind = "Cond" -> <<e.test, e.cons, e.alt>>
      [] e.kind \in {"Unary", "Update"} -> <<e.arg>>
      [] e.kind \in {"Paren", "TsAs"} -> <<e.expr>>
      [] e.kind = "Seq" -> e.exprs
      [] e.kind = "OptChain" ->
            IF e.base.k = "Member" THEN <<e.base.m>> ELSE <<e.base.callee>>
      [] e.kind = "Object" ->
            FlatSeq([i \in 1..Len(e.props) |->
                CASE e.props[i].k = "KeyValue" -> e.props[i].computed \o <<e.props[i].value>>
                  [] e.props[i].k = "Spread" -> <<e.props[i].expr>>
                  [] e.props[i].k = "Shorthand" -> <<e.props[i].id>>
                  [] OTHER -> << >>])
      [] e.kind = "Array" ->
            FlatSeq([i \in 1..Len(e.elems) |->
                IF IsSome(e.elems[i]) THEN <<Unwrap(e.elems[i]).expr>> ELSE << >>])
      [] OTHER -> << >>

\* whether collect_ident_names_in_expr finds an identifier
RECURSIVE has_ident(_)
has_ident(e) ==
    \/ e.kind = "Ident"
    \/ \E i \in 1..Len(SubExprs(e)) : has_ident(SubExprs(e)[i])

\* pending work of the resolver: a call, a push_ident_ref, a file_from_span
\* made for its effect on module_file, or a loop standing at operand i
SCollect(e) == [k |-> "collect", expr |-> e]
SIdentRef(i, path, sp) == [k |-> "identref", id |-> i, path |-> path, span |-> sp]
STouch(sp) == [k |-> "touch", span |-> sp]
SLoop(e, i) == [k |-> "loop", expr |-> e, idx |-> i]

\* the binding lookup of push_ident_ref: keyed by (sym, ctxt)
ref_lookup(b, i) == bindings_get(b, to_id(i))

CollectAll(es) == [i \in 1..Len(es) |-> SCollect(es[i])]

\* the operands a call of collect_symbol_refs_from_expr loops over
sym_operands(e) ==
    CASE e.kind \in {"Call", "New"} -> e.args
      [] e.kind \in {"Tpl", "TaggedTpl", "Seq"} -> e.exprs
      [] e.kind = "Object" -> e.props
      [] e.kind = "Array" -> e.elems
      [] OTHER -> << >>

\* the work of one iteration of that loop
sym_loop_iter(e, i) ==
    LET x == sym_operands(e)[i]
    IN  CASE e.kind \in {"Call", "New"} -> <<SCollect(x.expr)>>
          [] e.kind = "Tpl" ->
                (IF has_ident(x) THEN <<STouch(x.span)>> ELSE << >>) \o <<SCollect(x)>>
          [] e.kind \in {"TaggedTpl", "Seq"} -> <<SCollect(x)>>
          [] e.kind = "Array" -> IF IsSome(x) THEN <<SCollect(Unwrap(x).expr)>> ELSE << >>
          [] e.kind = "Object" ->
                CASE x.k = "Spread" -> <<SCollect(x.expr)>>
                  [] x.k = "KeyValue" -> CollectAll(x.computed) \o <<SCollect(x.value)>>
                  [] x.k = "Shorthand" -> <<SIdentRef(x.id, << >>, x.id.span)>>
                  [] OTHER -> << >>

\* the body of collect_symbol_refs_from_expr, as the work it does in order
collect_body(e) ==
    CASE e.kind = "Ident" -> <<SIdentRef(e, << >>, e.span), STouch(e.span)>>
      [] e.kind \in {"Member", "OptChain"} ->
            LET r == member_to_root_and_path(e)
            IN  IF IsSome(r)
                THEN <<SIdentRef(Unwrap(r).root, Unwrap(r).path, Unwrap(r).span)>>
                ELSE << >>
      [] e.kind = "Call" ->
            (IF e.callee.kind \in {"Member", "OptChain"}
             THEN LET r == member_to_root_and_path(e.callee)
                  IN  IF IsSome(r)
                      THEN <<SIdentRef(Unwrap(r).root, << >>, Unwrap(r).span)>>
                      ELSE <<SCollect(e.callee)>>
             ELSE <<SCollect(e.callee)>>)
            \o <<SLoop(e, 1)>>
      [] e.kind = "New" -> <<SCollect(e.callee), SLoop(e, 1)>>
      [] e.kind = "TaggedTpl" -> <<SCollect(e.tag), SLoop(e, 1)>>
      [] e.kind \in {"Tpl", "Seq", "Array", "Object"} -> <<SLoop(e, 1)>>
      [] e.kind \in {"Bin", "Unary", "Update", "Cond", "Paren", "TsAs"} ->
            CollectAll(SubExprs(e))
      [] OTHER -> << >>

\* One step of the resolver on the state [work, out, mf]
sym_step(b, st) ==
    LET it == Head(st.work)
        rest == Tail(st.work)
    IN  CASE it.k = "collect" ->
                [work |-> collect_body(it.expr) \o rest, out |-> st.out, mf |-> st.mf]
          [] it.k = "touch" ->
                [work |-> rest, out |-> st.out, mf |-> file_from_span(st.mf, it.span).mf]
          [] it.k = "loop" ->
                IF it.idx > Len(sym_operands(it.expr))
                THEN [work |-> rest, out |-> st.out, mf |-> st.mf]
                ELSE [work |-> sym_loop_iter(it.expr, it.idx)
                                 \o <<SLoop(it.expr, it.idx + 1)>> \o rest,
                      out |-> st.out, mf |-> st.mf]
          [] OTHER ->
                \* push_ident_ref
                LET ff == file_from_span(st.mf, it.span)
                    file == IF IsSome(ff.file) THEN Unwrap(ff.file) ELSE current_file(ff.mf)
                    ref == SymbolRef(file, it.id.sym, it.path, span_file_lines(it.span))
                    bd == ref_lookup(b, it.id)
                    chase == IF IsSome(bd) /\ IsSome(Unwrap(bd).init)
                             THEN <<SCollect(Unwrap(Unwrap(bd).init))>> ELSE << >>
                IN  [work |-> chase \o rest, out |-> Append(st.out, ref), mf |-> ff.mf]

RECURSIVE sym_run(_, _)
sym_run(b, st) ==
    IF Len(st.work) = 0 THEN st
    ELSE LET go(nx) == sym_run(b, nx)
         IN  Eval(go, sym_step(b, st))

\* self.collect_symbol_refs_from_expr(e, out): the new out and module_file
collect_symbol_refs_from_expr(b, e, out, mf) ==
    sym_run(b, [work |-> <<SCollect(e)>>, out |-> out, mf |-> mf])

-----------------------------------------------------------------------------
(* Declarations and the BindingCollector *)

VarDecl(sym, ctxt, sp, init) ==
    [k |-> "Var", sym |-> sym, ctxt |-> ctxt, span |-> sp, init |-> init]
\* a declarator whose name is a destructuring pattern
VarPat(init) == [k |-> "VarPat", init |-> init]
FnDecl(sym, ctxt, sp, fnsp) ==
    [k |-> "Fn", sym |-> sym, ctxt |-> ctxt, span |-> sp, fnspan |-> fnsp]
\* spec is "named", "default" or "namespace"; imported is the `x` of `x as y`
ImportDecl(spec, sym, ctxt, sp, imported, src) ==
    [k |-> "Import", spec |-> spec, sym |-> sym, ctxt |-> ctxt, span |-> sp,
     imported |-> imported, src |-> src]

\* the entry one declaration inserts, if any
decl_binding(d) ==
    CASE d.k = "Var" -> Some(Binding(d.span, d.init, None, None))
      [] d.k = "Fn" -> Some(Binding(d.span, None, None, Some(d.fnspan)))
      [] d.k = "Import" ->
            Some(Binding(d.span, None,
                 Some([source |-> d.src,
                       imported |-> CASE d.spec = "default" -> "default"
                                      [] d.spec = "namespace" -> "*"
                                      [] OTHER -> IF IsSome(d.imported)
                                                 THEN Unwrap(d.imported) ELSE d.sym]),
                 None))
      [] OTHER -> None

\* program.visit_with(&mut BindingCollector): later inserts overwrite
RECURSIVE collect_into(_, _)
collect_into(m, decls) ==
    IF Len(decls) = 0 THEN m
    ELSE LET d == Head(decls)
             e == decl_binding(d)
             go(nm) == collect_into(nm, Tail(decls))
         IN  Eval(go, IF IsSome(e) THEN MapInsert(m, <<d.sym, d.ctxt>>, Unwrap(e)) ELSE m)

collect_bindings(decls) == collect_into(EmptyMap, decls)

-----------------------------------------------------------------------------
(* JSX trees *)

\* an element name; `first` classifies the first character of an identifier
\* name as char::is_lowercase / char::is_uppercase see it
JSXIdent(sym, first, sp) == [k |-> "Ident", sym |-> sym, first |-> first, span |-> sp]
JSXMemberExpr(root, prop) == [k |-> "Member", root |-> root, prop |-> prop]
JSXNamespacedName(ns, name) == [k |-> "Ns", ns |-> ns, name |-> name]

\* attribute values: none, a string literal, or an expression container
LitStr(v) == Some([vk |-> "str", v |-> v])
ExprValue(e) == Some([vk |-> "expr", expr |-> e])
JSXAttr(name, value) == [k |-> "attr", name |-> name, value |-> value]
SpreadElement(e) == [k |-> "spread", expr |-> e]

JSXElement(name, attrs, children, ospan, span) ==
    [t |-> "el", name |-> name, attrs |-> attrs, children |-> children,
     ospan |-> ospan, span |-> span]
JSXText(sp) == [t |-> "text", span |-> sp]
JSXExprContainer(e) == [t |-> "expr", expr |-> e]
JSXFragment(children) == [t |-> "frag", children |-> children]

wrapper_tag == "codepress-marker"
provider_ident == "__CPProvider"

is_custom_component_name(name) ==
    CASE name.k = "Ident" -> name.first = "upper"
      [] OTHER -> TRUE

\* the is_host_pre test of Pass 1 and HoistAndElide::is_host
is_host_name(name) == name.k = "Ident" /\ name.first = "lower"

is_synthetic_element(name) ==
    CASE name.k = "Ident" -> name.sym \in {wrapper_tag, provider_ident, "__CPX"}
      [] name.k = "Member" -> name.root \in {"__CPX", provider_ident}
      [] OTHER -> FALSE

\* attrs.iter().any(name == key)
has_attr(attrs, key) ==
    \E i \in 1..Len(attrs) : attrs[i].k = "attr" /\ attrs[i].name = key

\* (mutant) the repository attribute pushed without looking for one
has_repo_attribute_never(attrs) == FALSE

has_repo_attribute(attrs) == has_attr(attrs, "codepress-github-repo-name")
has_branch_attribute(attrs) == has_attr(attrs, "codepress-github-branch")

\* the first attribute named key that holds a string literal
get_attr_string(attrs, key) ==
    LET hits == {i \in 1..Len(attrs) :
                    /\ attrs[i].k = "attr" /\ attrs[i].name = key
                    /\ IsSome(attrs[i].value) /\ Unwrap(attrs[i].value).vk = "str"}
    IN  IF hits = {} THEN None
        ELSE Some(Unwrap(attrs[CHOOSE i \in hits : \A j \in hits : i <= j].value).v)

attach_attr_string(attrs, key, val) == Append(attrs, JSXAttr(key, LitStr(val)))

remove_attr(attrs, key) ==
    LET Keep(a) == ~(a.k = "attr" /\ a.name = key)
    IN  SelectSeq(attrs, Keep)

set_attr_string(attrs, key, val) == attach_attr_string(remove_attr(attrs, key), key, val)

\* two JSON-array texts merged without parsing; an array text is kept as
\* the sequence of its items, "[]" being the empty sequence
merge_json_arrays_str(lhs, rhs) ==
    LET empty_l == lhs = << >>
        empty_r == rhs = << >>
    IN  IF empty_l /\ empty_r THEN << >>
        ELSE IF empty_l THEN rhs
        ELSE IF empty_r THEN lhs
        ELSE lhs \o rhs

create_encoded_path_attr(filename, opening_span, parent_span) ==
    JSXAttr("codepress-data-fp", LitStr(encoded_path_value(filename, opening_span, parent_span)))

\* (mutant) the repository name attached as an expression, which the
\* provenance walk of the element then traces
create_repo_attr_as_expr(cfg) ==
    IF IsSome(cfg.repo_name)
    THEN Some(JSXAttr("codepress-github-repo-name",
                      ExprValue(StrV(Unwrap(cfg.repo_name), Sp(1, 1)))))
    ELSE None

\* Option<JSXAttrOrSpread>
create_repo_attr(cfg) ==
    IF IsSome(cfg.repo_name)
    THEN Some(JSXAttr("codepress-github-repo-name", LitStr(Unwrap(cfg.repo_name))))
    ELSE None

create_branch_attr(cfg) ==
    IF IsSome(cfg.branch_name)
    THEN Some(JSXAttr("codepress-github-branch", LitStr(Unwrap(cfg.branch_name))))
    ELSE None

-----------------------------------------------------------------------------
(* Provenance gathering over a JSX element *)

\* what collect_from_jsx_element does in order: a push_local_ref (touch), a
\* trace plus symbol-ref collection of one expression, or a text literal
CTouch(sp) == [k |-> "touch", span |-> sp]
CTrace(e) == [k |-> "trace", expr |-> e]
CText(sp) == [k |-> "text", span |-> sp]

attr_items(a) ==
    CASE a.k = "spread" ->
            (IF has_ident(a.expr) THEN <<CTouch(a.expr.span)>> ELSE << >>) \o <<CTrace(a.expr)>>
      [] a.k = "attr" /\ IsSome(a.value) /\ Unwrap(a.value).vk = "expr" ->
            LET e == Unwrap(a.value).expr
            IN  (IF has_ident(e) THEN <<CTouch(e.span)>> ELSE << >>) \o <<CTrace(e)>>
      [] OTHER -> << >>

RECURSIVE attrs_items(_)
attrs_items(attrs) ==
    IF Len(attrs) = 0 THEN << >> ELSE attr_items(Head(attrs)) \o attrs_items(Tail(attrs))

RECURSIVE element_items(_)
RECURSIVE children_items(_)

\* the walk of collect_from_jsx_element
element_items(el) ==
    (IF el.name.k = "Ident" THEN <<CTouch(el.name.span)>> ELSE << >>)
    \o attrs_items(el.attrs)
    \o children_items(el.children)

\* the child loop shared by collect_from_jsx_element and collect_from_jsx_fragment
children_items(chs) ==
    IF Len(chs) = 0 THEN << >>
    ELSE LET ch == Head(chs)
             here == CASE ch.t = "expr" -> <<CTrace(ch.expr)>>
                       [] ch.t = "el" -> element_items(ch)
                       [] ch.t = "frag" -> children_items(ch.children)
                       [] ch.t = "text" -> <<CText(ch.span)>>
         IN  here \o children_items(Tail(chs))

\* the items applied to [all_nodes, symrefs, mf]
RECURSIVE collect_items(_, _, _)
collect_items(b, items, st) ==
    IF Len(items) = 0 THEN st
    ELSE LET it == Head(items)
             nx == CASE it.k = "touch" ->
                          [st EXCEPT !.mf = file_from_span(st.mf, it.span).mf]
                     [] it.k = "text" ->
                          [st EXCEPT !.all_nodes =
                              Append(@, NLiteral(span_file_lines(it.span), "string"))]
                     [] it.k = "trace" ->
                          LET both(r) == [all_nodes |-> st.all_nodes \o trace_expr(b, it.expr),
                                          symrefs |-> r.out, mf |-> r.mf]
                          IN  Eval(both, collect_symbol_refs_from_expr(b, it.expr,
                                                                       st.symrefs, st.mf))
             go(n) == collect_items(b, Tail(items), n)
         IN  Eval(go, nx)

collect_from_jsx_element(b, el, mf) ==
    collect_items(b, element_items(el), [all_nodes |-> << >>, symrefs |-> << >>, mf |-> mf])

\* the expressions collect_shallow_from_jsx_element resolves, in order
shallow_exprs(el) ==
    LET IsExprAttr(a) == \/ a.k = "spread"
                         \/ a.k = "attr" /\ IsSome(a.value) /\ Unwrap(a.value).vk = "expr"
        IsExprChild(ch) == ch.t = "expr"
        as == SelectSeq(el.attrs, IsExprAttr)
        cs == SelectSeq(el.children, IsExprChild)
    IN  [i \in 1..Len(as) |-> IF as[i].k = "spread" THEN as[i].expr
                              ELSE Unwrap(as[i].value).expr]
        \o [i \in 1..Len(cs) |-> cs[i].expr]

RECURSIVE collect_exprs(_, _, _)
collect_exprs(b, es, st) ==
    IF Len(es) = 0 THEN st
    ELSE LET go(r) == collect_exprs(b, Tail(es), [symrefs |-> r.out, mf |-> r.mf])
         IN  Eval(go, collect_symbol_refs_from_expr(b, Head(es), st.symrefs, st.mf))

collect_shallow_from_jsx_element(b, el, mf) ==
    collect_exprs(b, shallow_exprs(el), [symrefs |-> << >>, mf |-> mf])

-----------------------------------------------------------------------------
(* Pass 1: CodePressTransform::visit_mut_jsx_element *)

\* (mutant) a wrapper that is born with a text child
make_wrapper_with_text(filename, callsite_open_span, elem_span) ==
    JSXElement(JSXIdent(wrapper_tag, "lower", DUMMY_SP),
               << JSXAttr("data-codepress-callsite",
                          create_encoded_path_attr(filename, callsite_open_span,
                                                   Some(elem_span)).value) >>,
               <<JSXText(DUMMY_SP)>>, DUMMY_SP, DUMMY_SP)

\* <codepress-marker style={{display:'contents'}} data-codepress-callsite=...>
make_display_contents_wrapper(filename, callsite_open_span, elem_span) ==
    JSXElement(JSXIdent(wrapper_tag, "lower", DUMMY_SP),
               << JSXAttr("style", ExprValue(Object(
                      <<KeyValue("display", DUMMY_SP, StrV("contents", DUMMY_SP))>>, DUMMY_SP))),
                  JSXAttr("data-codepress-callsite",
                          create_encoded_path_attr(filename, callsite_open_span,
                                                   Some(elem_span)).value) >>,
               << >>, DUMMY_SP, DUMMY_SP)

ProviderMeta(cs, c, k, fp, sr, csr) ==
    [cs |-> cs, c |-> c, k |-> k, fp |-> fp, sr |-> sr, csr |-> csr]

\* (mutant) the payload carried by a <div> around the node
wrap_with_div(node, meta) ==
    JSXElement(JSXIdent("div", "lower", DUMMY_SP),
               <<JSXAttr("data-codepress-callsite", LitStr(meta.cs))>>,
               <<node>>, DUMMY_SP, DUMMY_SP)

\* <__CPProvider value={{cs, c, k, fp}}>node</__CPProvider>
wrap_with_provider(node, meta) ==
    JSXElement(JSXIdent(provider_ident, "other", DUMMY_SP),
               << JSXAttr("value", ExprValue(Object(
                      << KeyValue("cs", DUMMY_SP, StrV(meta.cs, DUMMY_SP)),
                         KeyValue("c", DUMMY_SP, StrV(meta.c, DUMMY_SP)),
                         KeyValue("k", DUMMY_SP, StrV(meta.k, DUMMY_SP)),
                         KeyValue("fp", DUMMY_SP, StrV(meta.fp, DUMMY_SP)) >>, DUMMY_SP))) >>,
               <<node>>, DUMMY_SP, DUMMY_SP)

\* the element names the repository/branch stamp may land on
root_eligible(name) == name.k = "Ident" /\ name.sym \in {"html", "body", "div"}

\* the pushes made between the load and the store of the flag
repo_branch_stamp(cfg, attrs) ==
    LET ra == create_repo_attr(cfg)
        a1 == IF ~has_repo_attribute(attrs) /\ IsSome(ra) THEN Append(attrs, Unwrap(ra))
              ELSE attrs
        ba == create_branch_attr(cfg)
    IN  IF ~has_branch_attribute(a1) /\ IsSome(ba) THEN Append(a1, Unwrap(ba)) ELSE a1

\* (mutant) the element's own callsite appended without the `already` test
with_self_callsite_unchecked(candidates, filename, ospan, span) ==
    IF is_dummy(span) \/ ~IsSome(get_line_info(ospan, Some(span))) THEN candidates
    ELSE Append(candidates,
                Candidate([file |-> normalize_filename(filename),
                           lines |-> Unwrap(get_line_info(ospan, Some(span)))], "callsite"))

\* the element's own callsite candidate, appended unless already present
with_self_callsite(candidates, filename, ospan, span) ==
    IF is_dummy(span) THEN candidates
    ELSE LET li == get_line_info(ospan, Some(span))
         IN  IF ~IsSome(li) THEN candidates
             ELSE LET self_target == [file |-> normalize_filename(filename),
                                      lines |-> Unwrap(li)]
                      already == \E i \in 1..Len(candidates) :
                                    /\ candidates[i].reason = "callsite"
                                    /\ candidates[i].target = self_target
                  IN  IF already THEN candidates
                      ELSE Append(candidates, Candidate(self_target, "callsite"))

\* (mutant) the callsite pushed on the host ancestor whatever it carries
stamp_host_every_callsite(host_attrs, cs_symrefs_enc, symrefs_enc, callsite_attr) ==
    Append(attach_attr_string(
               attach_attr_string(host_attrs, "data-codepress-callsite-symbol-refs",
                                  cs_symrefs_enc),
               "data-codepress-symbol-refs", symrefs_enc),
           JSXAttr("data-codepress-callsite", callsite_attr.value))

\* the shallow and deep refs and the callsite merged into the host ancestor
stamp_host(host_attrs, cs_symrefs_enc, symrefs_enc, callsite_attr) ==
    LET csk == "data-codepress-callsite-symbol-refs"
        srk == "data-codepress-symbol-refs"
        e1 == get_attr_string(host_attrs, csk)
        h1 == IF IsSome(e1)
              THEN set_attr_string(host_attrs, csk,
                                   merge_json_arrays_str(Unwrap(e1), cs_symrefs_enc))
              ELSE attach_attr_string(host_attrs, csk, cs_symrefs_enc)
        e2 == get_attr_string(h1, srk)
        h2 == IF IsSome(e2)
              THEN set_attr_string(h1, srk, merge_json_arrays_str(Unwrap(e2), symrefs_enc))
              ELSE attach_attr_string(h1, srk, symrefs_enc)
    IN  IF IsSome(get_attr_string(h2, "data-codepress-callsite")) THEN h2
        ELSE Append(h2, JSXAttr("data-codepress-callsite", callsite_attr.value))

\* the last codepress-data-fp string on the node, "" when there is none
find_fp(attrs) ==
    LET hits == {i \in 1..Len(attrs) :
                    /\ attrs[i].k = "attr" /\ attrs[i].name = "codepress-data-fp"
                    /\ IsSome(attrs[i].value) /\ Unwrap(attrs[i].value).vk = "str"}
    IN  IF hits = {} THEN ""
        ELSE Unwrap(attrs[CHOOSE i \in hits : \A j \in hits : j <= i].value).v

\* The visitor state threaded through Pass 1: the global flag, module_file and
\* the attribute vector on top of host_attr_stack (None when the stack is
\* empty). Every write through the raw pointer lands in ctx.host, which the
\* host element takes back as its attributes once its children are visited.
Ctx(flag, mf, host) == [flag |-> flag, mf |-> mf, host |-> host]

\* "Root repo/branch once", after the load of the flag: on a root-eligible
\* element the attributes are pushed and the flag is stored
stamp_once(cfg, name, attrs, loaded) ==
    IF IsSome(cfg.repo_name) /\ ~loaded /\ root_eligible(name)
    THEN [attrs |-> repo_branch_stamp(cfg, attrs), stored |-> TRUE]
    ELSE [attrs |-> attrs, stored |-> FALSE]

\* the span-derived file name of the element
element_filename(span) ==
    IF source_map /\ ~is_dummy(span) THEN RawFileName ELSE <<"unknown">>

\* From the return of visit_mut_children to the stamp: r is what visiting
\* the children returned. A host takes its attributes back from the stack
\* top and pops; a synthetic element returns untouched.
element_after_children(cfg, node, ctx, r) ==
    Eval(LAMBDA st :
            [synthetic |-> is_synthetic_element(node.name),
             node |-> [node EXCEPT !.attrs = st.attrs, !.children = r.nodes],
             outer |-> IF is_host_name(node.name) THEN ctx.host ELSE r.ctx.host,
             flag |-> st.stored \/ r.ctx.flag,
             mf |-> r.ctx.mf],
         Eval(LAMBDA own_attrs :
                IF is_synthetic_element(node.name)
                THEN [attrs |-> own_attrs, stored |-> FALSE]
                ELSE stamp_once(cfg, node.name,
                                Append(own_attrs,
                                       create_encoded_path_attr(element_filename(node.span),
                                                                node.ospan, Some(node.span))),
                                r.ctx.flag),
              IF is_host_name(node.name) THEN Unwrap(r.ctx.host) ELSE node.attrs))

\* "gather provenance for this element" and "Build payloads"
element_payloads(b, node, mf) ==
    Eval(LAMBDA deep :
          Eval(LAMBDA shallow :
                 [cands_enc |-> xor_encode(
                      with_self_callsite(rank_candidates(deep.all_nodes),
                                         element_filename(node.span),
                                         node.ospan, node.span)),
                  kinds_enc |-> xor_encode(aggregate_kinds(deep.all_nodes)),
                  symrefs_enc |-> xor_encode(deep.symrefs),
                  cs_symrefs_enc |-> xor_encode(shallow.symrefs),
                  mf |-> shallow.mf],
               collect_shallow_from_jsx_element(b, node, deep.mf)),
         collect_from_jsx_element(b, node, mf))

\* the three attributes both branches attach first
attach_payload(attrs, p) ==
    attach_attr_string(
        attach_attr_string(
            attach_attr_string(attrs, "data-codepress-edit-candidates", p.cands_enc),
            "data-codepress-source-kinds", p.kinds_enc),
        "data-codepress-symbol-refs", p.symrefs_enc)

\* the temporary wrapper around an invocation that has no host ancestor
marker_around(invocation, callsite_of, p) ==
    [make_display_contents_wrapper(element_filename(callsite_of.span),
                                   callsite_of.ospan, callsite_of.span) EXCEPT
        !.attrs = attach_attr_string(
                    attach_attr_string(@, "data-codepress-callsite-symbol-refs",
                                       p.cs_symrefs_enc),
                    "data-codepress-symbol-refs", p.symrefs_enc),
        !.children = Append(@, invocation)]

\* the provider around cur, for the invocation orig
provider_around(cur, orig, p) ==
    wrap_with_provider(cur,
        ProviderMeta(Unwrap(create_encoded_path_attr(element_filename(orig.span), orig.ospan,
                                                     Some(orig.span)).value).v,
                     p.cands_enc, p.kinds_enc, find_fp(cur.attrs),
                     p.symrefs_enc, p.cs_symrefs_enc))

\* the branch of a custom component invocation: node is the element with its
\* fp (and stamp), outer the attributes of the nearest host ancestor if any
tag_custom_call(node, outer, p) ==
    Eval(LAMBDA invocation :
            IF IsSome(outer)
            THEN [node |-> provider_around(invocation, node, p),
                  outer |-> Some(stamp_host(Unwrap(outer), p.cs_symrefs_enc, p.symrefs_enc,
                                            create_encoded_path_attr(
                                                element_filename(node.span),
                                                node.ospan, Some(node.span))))]
            ELSE [node |-> Eval(LAMBDA m : provider_around(m, node, p),
                                marker_around(invocation, node, p)),
                  outer |-> outer],
         [node EXCEPT !.attrs = attach_payload(@, p)])

\* the branch of every other element
tag_host(node, p) ==
    [node EXCEPT !.attrs =
        Append(attach_attr_string(attach_payload(@, p),
                                  "data-codepress-callsite-symbol-refs", p.cs_symrefs_enc),
               JSXAttr("data-codepress-callsite",
                       create_encoded_path_attr(element_filename(node.span), node.ospan,
                                                Some(node.span)).value))]

RECURSIVE visit_mut_jsx_element(_, _, _, _)
RECURSIVE visit_mut_children(_, _, _, _)

\* node.visit_mut_children_with(self) over a child list
visit_mut_children(cfg, b, chs, ctx) ==
    IF Len(chs) = 0 THEN [nodes |-> << >>, ctx |-> ctx]
    ELSE Eval(LAMBDA r :
                Eval(LAMBDA rest : [nodes |-> <<r.node>> \o rest.nodes, ctx |-> rest.ctx],
                     visit_mut_children(cfg, b, Tail(chs), r.ctx)),
              CASE Head(chs).t = "el" -> visit_mut_jsx_element(cfg, b, Head(chs), ctx)
                [] Head(chs).t = "frag" ->
                      Eval(LAMBDA v : [node |-> [Head(chs) EXCEPT !.children = v.nodes],
                                       ctx |-> v.ctx],
                           visit_mut_children(cfg, b, Head(chs).children, ctx))
                [] OTHER -> [node |-> Head(chs), ctx |-> ctx])

\* what the element becomes once its children are visited: s is the result
\* of element_after_children
tag_element(b, name, s) ==
    IF s.synthetic
    THEN [node |-> s.node, ctx |-> Ctx(s.flag, s.mf, s.outer)]
    ELSE Eval(LAMBDA p :
                IF ~is_host_name(name) /\ is_custom_component_name(name)
                THEN Eval(LAMBDA w : [node |-> w.node, ctx |-> Ctx(s.flag, p.mf, w.outer)],
                          tag_custom_call(s.node, s.outer, p))
                ELSE [node |-> tag_host(s.node, p), ctx |-> Ctx(s.flag, p.mf, s.outer)],
              element_payloads(b, s.node, s.mf))

visit_mut_jsx_element(cfg, b, node, ctx) ==
    Eval(LAMBDA r : tag_element(b, node.name, element_after_children(cfg, node, ctx, r)),
         visit_mut_children(cfg, b, node.children,
                            IF is_host_name(node.name)
                            THEN [ctx EXCEPT !.host = Some(node.attrs)] ELSE ctx))

-----------------------------------------------------------------------------
(* Pass 2: HoistAndElide *)

\* the payload keys process_transform hands to the elider, in order
elider_keys ==
    << "data-codepress-edit-candidates", "data-codepress-source-kinds",
       "data-codepress-callsite", "data-codepress-symbol-refs",
       "data-codepress-callsite-symbol-refs" >>

\* (mutant) an elider that takes no element for a wrapper
is_wrapper_never(name) == FALSE

is_wrapper(name) == name.k = "Ident" /\ name.sym = wrapper_tag

push_attr(attrs, key, val) == Append(attrs, JSXAttr(key, LitStr(val)))

\* (mutant) an elider that copies no key
copy_payload_keys_none(src_attrs, dst_attrs, keys) == dst_attrs

\* (mutant) every key of the marker written over what the destination has
RECURSIVE copy_payload_keys_overwrite(_, _, _)
copy_payload_keys_overwrite(src_attrs, dst_attrs, keys) ==
    IF Len(keys) = 0 THEN dst_attrs
    ELSE LET val == get_attr_string(src_attrs, Head(keys))
             dst == IF ~IsSome(val) THEN dst_attrs
                    ELSE push_attr(remove_attr(dst_attrs, Head(keys)), Head(keys), Unwrap(val))
             go(d) == copy_payload_keys_overwrite(src_attrs, d, Tail(keys))
         IN  Eval(go, dst)

RECURSIVE copy_payload_keys(_, _, _)
copy_payload_keys(src_attrs, dst_attrs, keys) ==
    IF Len(keys) = 0 THEN dst_attrs
    ELSE LET key == Head(keys)
             val == get_attr_string(src_attrs, key)
             dst == IF ~IsSome(val) THEN dst_attrs
                    ELSE IF key \in {"data-codepress-callsite-symbol-refs",
                                     "data-codepress-symbol-refs"}
                    THEN LET existing == get_attr_string(dst_attrs, key)
                         IN  IF IsSome(existing)
                             THEN push_attr(remove_attr(dst_attrs, key), key,
                                            merge_json_arrays_str(Unwrap(existing), Unwrap(val)))
                             ELSE push_attr(dst_attrs, key, Unwrap(val))
                    ELSE IF ~has_attr(dst_attrs, key)
                         THEN push_attr(dst_attrs, key, Unwrap(val))
                         ELSE dst_attrs
             go(d) == copy_payload_keys(src_attrs, d, Tail(keys))
         IN  Eval(go, dst)

\* first_host_descendant_mut followed by the copy into the element found:
\* the children with the first host descendant (depth-first, through element
\* children only) updated, and whether there was one
RECURSIVE hoist_into_first_host(_, _)
hoist_into_first_host(chs, src_attrs) ==
    IF Len(chs) = 0 THEN [found |-> FALSE, nodes |-> chs]
    ELSE LET ch == Head(chs)
         IN  IF ch.t = "el" /\ is_host_name(ch.name)
             THEN [found |-> TRUE,
                   nodes |-> <<[ch EXCEPT !.attrs =
                                   copy_payload_keys(src_attrs, @, elider_keys)]>>
                             \o Tail(chs)]
             ELSE LET inner == IF ch.t = "el"
                               THEN hoist_into_first_host(ch.children, src_attrs)
                               ELSE [found |-> FALSE, nodes |-> << >>]
                      cons(rest) == [found |-> rest.found, nodes |-> <<ch>> \o rest.nodes]
                      pick(r) ==
                          IF r.found
                          THEN [found |-> TRUE,
                                nodes |-> <<[ch EXCEPT !.children = r.nodes]>> \o Tail(chs)]
                          ELSE Eval(cons, hoist_into_first_host(Tail(chs), src_attrs))
                  IN  Eval(pick, inner)

RECURSIVE elide_element(_)
RECURSIVE elide_children(_)

\* node.visit_mut_children_with(self) of the elider
elide_children(chs) ==
    [i \in 1..Len(chs) |->
        CASE chs[i].t = "el" -> elide_element(chs[i])
          [] chs[i].t = "frag" -> [chs[i] EXCEPT !.children = elide_children(@)]
          [] OTHER -> chs[i]]

\* (mutant) an elider that takes the first child of a marker for the child
\* to keep, however many children the marker has
elide_element_first_child(node) ==
    LET elide(visited) ==
            IF ~is_wrapper(visited.name) \/ Len(visited.children) = 0 THEN visited
            ELSE IF visited.children[1].t # "el" THEN visited
            ELSE [visited.children[1] EXCEPT !.attrs =
                     copy_payload_keys(visited.attrs, @, elider_keys)]
    IN  Eval(elide, [node EXCEPT !.children = elide_children(@)])

\* (mutant) an elider that handles the node before it visits the children of
\* what is left
elide_element_before_children(node) ==
    LET elide(visited) ==
            IF ~is_wrapper(visited.name) \/ Len(visited.children) # 1 THEN visited
            ELSE IF visited.children[1].t # "el" THEN visited
            ELSE LET child == visited.children[1]
                     hoist(h) ==
                         IF h.found THEN [child EXCEPT !.children = h.nodes]
                         ELSE [child EXCEPT !.attrs =
                                  copy_payload_keys(visited.attrs, @, elider_keys)]
                 IN  Eval(hoist, hoist_into_first_host(child.children, visited.attrs))
        descend(left) == [left EXCEPT !.children = elide_children(@)]
    IN  Eval(descend, elide(node))

\* HoistAndElide::visit_mut_jsx_element
elide_element(node) ==
    LET elide(visited) ==
            IF ~is_wrapper(visited.name) \/ Len(visited.children) # 1 THEN visited
            ELSE IF visited.children[1].t # "el" THEN visited
            ELSE LET child == visited.children[1]
                     hoist(h) ==
                         IF h.found THEN [child EXCEPT !.children = h.nodes]
                         ELSE [child EXCEPT !.attrs =
                                  copy_payload_keys(visited.attrs, @, elider_keys)]
                 IN  Eval(hoist, hoist_into_first_host(child.children, visited.attrs))
    IN  Eval(elide, [node EXCEPT !.children = elide_children(@)])

-----------------------------------------------------------------------------
(* The traced module: declarations and trace roots *)

\* deepest nesting of the generated binary expressions
MaxNest == 50
\* most properties / elements / arguments of the generated wide expressions
MaxWide == 70
\* the call stack of the resolver, measured in the references one root has
\* pushed while calls are still pending: past it the recursion overflows
MaxRefs == 12

MinOf(a, b) == IF a < b THEN a ELSE b
MaxOf(a, b) == IF a > b THEN a ELSE b
Cover(p, q) == Sp(MinOf(p.span.lo, q.span.lo), MaxOf(p.span.hi, q.span.hi))

\* `const x = srcA` in the outer scope, `const x = srcB` in a nested one
InitA == Ident("srcA", 1, Sp(15, 18))
InitB == Ident("srcB", 2, Sp(25, 28))
DeclOuterX == VarDecl("x", 1, Sp(11, 11), Some(InitA))
DeclInnerX == VarDecl("x", 2, Sp(21, 21), Some(InitB))

TraceDecls ==
    << ImportDecl("named", "imp", 1, Sp(1, 3), None, "./user"),
       DeclOuterX,
       DeclInnerX,
       VarDecl("a", 1, Sp(31, 31),
               Some(Bin(Ident("a", 1, Sp(35, 35)), Object(<< >>, Sp(38, 39)), Sp(35, 39)))),
       VarDecl("b", 1, Sp(41, 41), Some(Ident("c", 1, Sp(45, 45)))),
       VarDecl("c", 1, Sp(51, 51), Some(Ident("b", 1, Sp(55, 55)))),
       FnDecl("f", 1, Sp(61, 61), Sp(61, 69)),
       VarDecl("userName", 1, Sp(71, 78), Some(Ident("imp", 1, Sp(75, 77)))),
       VarPat(Some(Ident("x", 1, Sp(85, 85)))),
       VarDecl("alias", 1, Sp(91, 95), Some(Ident("x", 1, Sp(97, 97)))) >>

TraceBindings == collect_bindings(TraceDecls)

OuterX == Ident("x", 1, Sp(211, 211))
InnerX == Ident("x", 2, Sp(221, 221))

Atoms ==
    { StrV("s", Sp(201, 204)), NumV("1", Sp(206, 206)), OuterX, InnerX,
      Ident("a", 1, Sp(231, 231)), Ident("b", 1, Sp(241, 241)),
      Ident("u", 1, Sp(251, 251)), Ident("userName", 1, Sp(261, 268)),
      Ident("f", 1, Sp(271, 271)),
      Member(Member(Ident("process", 0, Sp(281, 287)), PIdent("env"), Sp(281, 291)),
             PIdent("KEY"), Sp(281, 295)),
      Arrow(Sp(301, 309)) }

Composites ==
    UNION { { Bin(p, q, Cover(p, q)),
              Member(p, PComputed(q), Cover(p, q)),
              Member(p, PIdent("k"), p.span),
              Call(p, <<Arg(q), SpreadArg(p)>>, Cover(p, q)),
              New(p, <<Arg(q)>>, Cover(p, q)),
              Cond(p, q, p, Cover(p, q)),
              Tpl(<<p, q>>, Cover(p, q)),
              Unary(p, p.span),
              Object(<<KeyValue("k", p.span, p), SpreadProp(q), KeyValue("j", q.span, q)>>,
                     Cover(p, q)),
              Array(<<Some(Arg(p)), None, Some(Arg(q))>>, Cover(p, q)) }
            : p \in Atoms, q \in Atoms }

RECURSIVE NestedBin(_)
NestedBin(n) ==
    IF n = 0 THEN NumV("0", Sp(401, 401))
    ELSE Bin(NestedBin(n - 1), StrV("t", Sp(402 + n, 402 + n)), Sp(401, 402 + n))

WideLit(i) == StrV("w", Sp(500 + i, 500 + i))
WideObject(n) ==
    Object([i \in 1..n |-> KeyValue("p", Sp(500 + i, 500 + i), WideLit(i))], Sp(501, 500 + n))
WideArray(n) == Array([i \in 1..n |-> Some(Arg(WideLit(i)))], Sp(501, 500 + n))
WideCall(n) ==
    Call(Ident("f", 1, Sp(499, 499)), [i \in 1..n |-> Arg(WideLit(i))], Sp(499, 500 + n))

\* the elements a traced expression sits on: one whose lines are those of
\* the call f(f) among the roots, and one elsewhere
TraceElems ==
    { [ospan |-> Sp(271, 271), span |-> Sp(271, 271)],
      [ospan |-> Sp(901, 905), span |-> Sp(901, 950)] }

\* f() + f() written on one line: every candidate of the chain occurs twice
CallF == Call(Ident("f", 1, Sp(271, 271)), << >>, Sp(271, 271))
DupCall == Bin(CallF, CallF, Sp(271, 271))

\* imp("s", ...x): the callee is bound by an import
CallImp ==
    Call(Ident("imp", 1, Sp(311, 313)),
         <<Arg(StrV("s", Sp(315, 317))), SpreadArg(OuterX)>>, Sp(311, 325))

\* alias, with const alias = x and const x = srcA
AliasRoot == Ident("alias", 1, Sp(321, 325))

\* x[f()].k and x.k[f()]: a computed key that is a call, before and after a
\* plain property
DynThenStatic ==
    Member(Member(Ident("x", 1, Sp(331, 331)), PComputed(CallF), Sp(331, 336)),
           PIdent("k"), Sp(331, 338))
StaticThenDyn ==
    Member(Member(Ident("x", 1, Sp(341, 341)), PIdent("k"), Sp(341, 343)),
           PComputed(CallF), Sp(341, 348))

TraceRoots ==
    Atoms \cup Composites \cup {DupCall, CallImp, AliasRoot, DynThenStatic, StaticThenDyn}
    \cup { NestedBin(n) : n \in 1..MaxNest }
    \cup { WideObject(MaxWide), WideArray(MaxWide), WideCall(MaxWide) }

-----------------------------------------------------------------------------
(* The tracer and the resolver, one call per step *)

TraceIdle ==
    /\ tcase = [bindings |-> EmptyMap, expr |-> Arrow(DUMMY_SP),
                elem |-> [ospan |-> DUMMY_SP, span |-> DUMMY_SP]]
    /\ tphase = "idle" /\ twork = << >> /\ chain = << >> /\ seen = {}
    /\ tdepth = 0 /\ swork = << >> /\ symout = << >> /\ module_file = None
    /\ cands = << >>

TInitTrace ==
    /\ \E e \in TraceRoots, el \in TraceElems :
          tcase = [bindings |-> TraceBindings, expr |-> e, elem |-> el]
    /\ tphase = "trace"
    /\ twork = <<WCall(tcase.expr, 0)>>
    /\ chain = << >>
    /\ seen = {}
    /\ tdepth = 0
    /\ swork = << >>
    /\ symout = << >>
    /\ module_file = None
    /\ cands = << >>

\* one call of trace_expr (or one deferred push of its caller)
TraceStep ==
    /\ UNCHANGED <<pvars, cvars, svars>>
    /\ tphase = "trace" /\ Len(twork) > 0
    /\ LET st == trace_step(tcase.bindings, seen, [work |-> twork, chain |-> chain])
       IN  twork' = st.work /\ chain' = st.chain
    /\ tdepth' = Head(twork).depth
    /\ UNCHANGED <<tcase, tphase, seen, swork, symout, module_file, cands>>

\* the trace returned: the same root goes to collect_symbol_refs_from_expr,
\* and the element's candidate list is built from the chain
TraceReturn ==
    /\ UNCHANGED <<pvars, cvars, svars>>
    /\ tphase = "trace" /\ Len(twork) = 0
    /\ tphase' = "refs"
    /\ swork' = <<SCollect(tcase.expr)>>
    /\ cands' = with_self_callsite(rank_candidates(chain), RawFileName,
                                   tcase.elem.ospan, tcase.elem.span)
    /\ UNCHANGED <<tcase, twork, chain, seen, tdepth, symout, module_file>>

\* one call of collect_symbol_refs_from_expr or push_ident_ref
SymStep ==
    /\ UNCHANGED <<pvars, cvars, svars>>
    /\ tphase = "refs" /\ Len(swork) > 0 /\ Len(symout) < MaxRefs
    /\ LET st == sym_step(tcase.bindings, [work |-> swork, out |-> symout, mf |-> module_file])
       IN  swork' = st.work /\ symout' = st.out /\ module_file' = st.mf
    /\ UNCHANGED <<tcase, tphase, twork, chain, seen, tdepth, cands>>

SymReturn ==
    /\ UNCHANGED <<pvars, cvars, svars>>
    /\ tphase = "refs" /\ Len(swork) = 0
    /\ tphase' = "done"
    /\ UNCHANGED <<tcase, twork, chain, seen, tdepth, swork, symout, module_file, cands>>

\* push_ident_ref and collect_symbol_refs_from_expr call each other with no
\* guard: a recursion that has not returned within the stack overflows it,
\* which ends the transform of the file
SymOverflow ==
    /\ UNCHANGED <<pvars, cvars, svars>>
    /\ tphase = "refs" /\ Len(swork) > 0 /\ Len(symout) >= MaxRefs
    /\ tphase' = "aborted"
    /\ UNCHANGED <<tcase, twork, chain, seen, tdepth, swork, symout, module_file, cands>>

-----------------------------------------------------------------------------
(* Specification of one trace root *)

PipelineIdle ==
    /\ ppc = "idle" /\ config = [repo_name |-> None, branch_name |-> None, skip_components |-> {}]
    /\ files = << >> /\ fidx = 0 /\ program = << >>
    /\ bindings = EmptyMap /\ outputs = << >>
    /\ GLOBAL_ATTRIBUTES_ADDED = FALSE

\* no concurrent transform, and no visit of Pass 1 followed call by call
FlagIdle ==
    /\ thr = << >>
    /\ vroot = JSXFragment(<< >>) /\ vframes = << >>
    /\ host_attr_stack = << >> /\ vreplaced = {}

TraceInit == TInitTrace /\ PipelineIdle /\ FlagIdle

TraceNext == TraceStep \/ TraceReturn \/ SymStep \/ SymReturn \/ SymOverflow

\* a file transform is single-threaded and synchronous: a pending call runs
SpecTrace == TraceInit /\ [][TraceNext]_vars /\ WF_vars(TraceNext)

-----------------------------------------------------------------------------
(* Properties of the tracer *)

Loc(e) == span_file_lines(e.span)

\* C6: trace_expr terminates on every root, cyclic initializers and deep
\* nesting included; no pending call is deeper than the guard admits plus
\* one, and only calls entered at depth <= 8 append to the chain.
C6_TraceTerminates ==
    /\ <>(tphase # "trace")
    /\ [](\A i \in 1..Len(twork) : twork[i].depth <= MaxDepth + 1)
    /\ [][Len(chain') > Len(chain) => tdepth' <= MaxDepth]_vars

\* a 50-level binary expression was traced to the end and cut at depth 8
C6_Witness ==
    /\ tphase = "refs"
    /\ tcase.expr = NestedBin(MaxNest)
    /\ Len(chain) = 2 * MaxDepth + 1

\* C7 (as claimed): one trace never holds more than 128 + 2 nodes.
C7_ChainAtMost130 == Len(chain) <= MaxChain + 2

\* C8: every lookup is keyed by (name, scope): after the inner x the
\* initializer of the inner declaration follows and never the outer one's,
\* and conversely; a call of x resolves to the declaration of its own scope;
\* the resolver chases the initializer of the x of its own scope.
C8_ScopedLookup ==
    /\ \A i \in 1..Len(chain) :
          /\ (i > 1 /\ chain[i].kind = "Init" /\ chain[i - 1].kind = "Ident"
              /\ chain[i - 1].name = "x" /\ chain[i - 1].span = Loc(InnerX)) => chain[i].span = Loc(InitB)
          /\ (i > 1 /\ chain[i].kind = "Init" /\ chain[i - 1].kind = "Ident"
              /\ chain[i - 1].name = "x" /\ chain[i - 1].span = Loc(OuterX)) => chain[i].span = Loc(InitA)
          /\ (chain[i].kind = "Call" /\ chain[i].callee = "x" /\ chain[i].callee_span = Loc(InnerX))
                => chain[i].fn_def_span = Some(span_file_lines(DeclInnerX.span))
          /\ (chain[i].kind = "Call" /\ chain[i].callee = "x" /\ chain[i].callee_span = Loc(OuterX))
                => chain[i].fn_def_span = Some(span_file_lines(DeclOuterX.span))
    /\ \A i \in 1..Len(symout) :
          /\ (i > 1 /\ symout[i - 1].local = "x" /\ symout[i - 1].span = Loc(InnerX)) => symout[i].local = "srcB"
          /\ (i > 1 /\ symout[i - 1].local = "x" /\ symout[i - 1].span = Loc(OuterX)) => symout[i].local = "srcA"
    /\ (tphase = "done" /\ tcase.expr = InnerX) =>
          /\ [i \in 1..Len(chain) |-> chain[i].kind] = <<"Ident", "Init", "Ident">>
          /\ chain[2].span = Loc(InitB)
          /\ [i \in 1..Len(symout) |-> symout[i].local] = <<"x", "srcB">>
    /\ (tphase = "done" /\ tcase.expr = OuterX) =>
          /\ [i \in 1..Len(chain) |-> chain[i].kind] = <<"Ident", "Init", "Ident">>
          /\ chain[2].span = Loc(InitA)
          /\ [i \in 1..Len(symout) |-> symout[i].local] = <<"x", "srcA">>

\* the inner x was traced and resolved
C8_Witness ==
    /\ tphase = "done" /\ tcase.expr = InnerX
    /\ Len(chain) = 3 /\ chain[2].span = Loc(InitB) /\ Len(symout) = 2

\* the identifiers an expression mentions
RECURSIVE idents_of(_)
idents_of(e) ==
    (IF e.kind = "Ident" THEN {e.sym} ELSE {})
    \cup UNION {idents_of(SubExprs(e)[i]) : i \in 1..Len(SubExprs(e))}

\* C13 (as claimed): the resolution of symbol references returns for every
\* expression and every binding table; it never ends the transform.
C13_ResolverReturns == tphase # "aborted"

\* the resolutions that do not return are those of a root that mentions a
\* variable whose initializer leads back to it (var a = a || {}; b = c, c = b)
C13_OnlyCyclesOverflow ==
    tphase = "aborted" => idents_of(tcase.expr) \cap {"a", "b"} # {}

\* an identifier no declaration of the module binds
Unbound == Ident("u", 1, Sp(251, 251))

\* the names without an entry in the binding table, in any scope
IsUnboundName(name) == \A id \in DOMAIN tcase.bindings : id[1] # name

\* C14 (as claimed): an identifier without a binding leaves an Unknown node
\* at its place in the chain.
C14_UnknownLeaf ==
    \A i \in 1..Len(chain) :
        (chain[i].kind = "Ident" /\ IsUnboundName(chain[i].name)) =>
            \E j \in 1..Len(chain) : chain[j].kind = "Unknown" /\ chain[j].span = chain[i].span

\* C14 (amended): an identifier without a binding is a leaf of the trace: it
\* leaves its Ident node and nothing else (no Init, no Import, no Unknown),
\* and the trace goes on with what follows it and returns.
C14_IdentLeaf ==
    /\ \A i \in 1..Len(chain) :
          (chain[i].kind = "Ident" /\ IsUnboundName(chain[i].name)) =>
              /\ i < Len(chain) => chain[i + 1].kind \notin {"Init", "Import"}
              /\ \A j \in 1..Len(chain) :
                    chain[j].kind = "Unknown" => chain[j].span # chain[i].span
    /\ (tphase \in {"refs", "done"} /\ tcase.expr = Unbound) =>
          chain = <<NIdent("u", Loc(Unbound))>>
    /\ (tphase \in {"refs", "done"} /\ tcase.expr.kind = "Bin"
        /\ tcase.expr.left = Unbound) =>
          /\ chain[2] = NIdent("u", Loc(Unbound))
          /\ Len(chain) >= 3 /\ chain[3].span = Loc(tcase.expr.right)
    /\ (tphase = "aborted") => tcase.expr # Unbound

\* u + "s" was traced to the end: the operator, u, and the literal after it
C14_Witness ==
    /\ tphase = "done"
    /\ tcase.expr.kind = "Bin" /\ tcase.expr.left = Unbound
    /\ [i \in 1..Len(chain) |-> chain[i].kind] = <<"Op", "Ident", "Literal">>

\* C16 (as claimed): within one trace an identifier met again leaves its
\* Ident node only: no Init or Import follows it a second time (stated for
\* the roots whose initializers are not cyclic).
C16_ExpandedOnce ==
    idents_of(tcase.expr) \cap {"a", "b"} = {} =>
        \A i, j \in 1..Len(chain) :
            (i < j /\ j < Len(chain) /\ chain[i].kind = "Ident" /\ chain[j] = chain[i]) =>
                chain[j + 1].kind \notin {"Init", "Import"}

\* the binding of the callee of the traced call, if it is an identifier
\* that has one
CalleeBinding ==
    IF tcase.expr.callee.kind = "Ident"
    THEN bindings_get(tcase.bindings, to_id(tcase.expr.callee))
    ELSE None

\* the nodes the arguments of the traced call leave, spread ones left out
ArgsTraced ==
    LET NotSpread(x) == ~x.spread
        args == SelectSeq(tcase.expr.args, NotSpread)
    IN  FlatSeq([i \in 1..Len(args) |-> trace_expr(tcase.bindings, args[i].expr)])

\* The trace of a root that is a call: the Call node comes first with the
\* call's location and the definition span fn_def, the ranked candidates
\* hold a fn-def entry exactly when there is one, and behind the node come
\* the traces of the arguments that are not spread.
CallTraced(fn_def) ==
    (tcase.expr.kind = "Call" /\ Len(chain) > 0) =>
        /\ chain[1].kind = "Call"
        /\ chain[1].callsite = Loc(tcase.expr)
        /\ chain[1].fn_def_span = fn_def
        /\ tphase \in {"refs", "done", "aborted"} =>
              /\ (\E i \in 1..Len(cands) : cands[i].reason = "fn-def") <=> IsSome(fn_def)
              /\ \A i \in 1..Len(cands) :
                    cands[i].reason = "fn-def" => cands[i].target = Unwrap(fn_def)
              /\ idents_of(tcase.expr) \cap {"a", "b"} = {} =>
                    chain = <<chain[1]>> \o ArgsTraced

\* C24 (as claimed): the Call node carries a definition span only when the
\* callee identifier is bound by a function declaration, and then that
\* function's body span; each non-spread argument is traced, spread ones not.
C24_FnDefOnlyForFunctions ==
    CallTraced(IF IsSome(CalleeBinding) /\ IsSome(Unwrap(CalleeBinding).fn_body_span)
               THEN Some(span_file_lines(Unwrap(Unwrap(CalleeBinding).fn_body_span)))
               ELSE None)

\* C24 (amended): the Call node carries a definition span whenever the
\* callee identifier has a binding: the body span of a function, and the
\* span of the declared name of an import or a variable. A callee without a
\* binding, or one that is no identifier, carries none.
C24_FnDefForEveryBinding ==
    CallTraced(IF ~IsSome(CalleeBinding) THEN None
               ELSE IF IsSome(Unwrap(CalleeBinding).fn_body_span)
               THEN Some(span_file_lines(Unwrap(Unwrap(CalleeBinding).fn_body_span)))
               ELSE Some(span_file_lines(Unwrap(CalleeBinding).def_span)))

\* imp("s", ...x) was traced: the call with the span of the imported name as
\* its definition, then the literal; x, which is spread, left nothing
C24_Witness ==
    /\ tphase = "done" /\ tcase.expr = CallImp
    /\ [i \in 1..Len(chain) |-> chain[i].kind] = <<"Call", "Literal">>
    /\ chain[1].fn_def_span = Some(span_file_lines(Sp(1, 3)))
    /\ \E i \in 1..Len(cands) : cands[i].reason = "fn-def"

\* the names and places of a list of symbol refs
RefNames(refs) == [i \in 1..Len(refs) |-> <<refs[i].local, refs[i].span>>]

\* the refs an expression holds itself, no initializer looked into
DirectRefs(e) == collect_symbol_refs_from_expr(EmptyMap, e, << >>, None).out

\* C25 (as claimed): for an identifier x with an initializer the resolver
\* returns the ref of x and the refs found in x's initializer itself, and
\* nothing from the initializers of the identifiers found there.
C25_OneHop ==
    (/\ tphase = "done" /\ tcase.expr.kind = "Ident"
     /\ IsSome(bindings_get(tcase.bindings, to_id(tcase.expr)))
     /\ IsSome(Unwrap(bindings_get(tcase.bindings, to_id(tcase.expr))).init)) =>
        RefNames(symout)
            = <<<<tcase.expr.sym, Loc(tcase.expr)>>>>
              \o RefNames(DirectRefs(Unwrap(Unwrap(bindings_get(tcase.bindings,
                                                                 to_id(tcase.expr))).init)))

\* the properties of a member chain, from the root outwards
RECURSIVE accessors(_)
accessors(e) ==
    IF e.kind = "Member" THEN accessors(e.obj) \o <<e.prop>> ELSE << >>

\* the root of a member chain
RECURSIVE chain_root(_)
chain_root(e) == IF e.kind = "Member" THEN chain_root(e.obj) ELSE e

\* the segments of the properties up to the first one that has none
RECURSIVE static_prefix(_)
static_prefix(props) ==
    IF Len(props) = 0 \/ Len(prop_segment(Head(props))) = 0 THEN << >>
    ELSE prop_segment(Head(props)) \o static_prefix(Tail(props))

\* a member chain on an identifier was resolved
MemberResolved ==
    /\ tphase = "done" /\ tcase.expr.kind = "Member"
    /\ chain_root(tcase.expr).kind = "Ident"

\* C26 (as claimed): the path of the ref of a member chain rooted at an
\* identifier is the leading statically known segments: a dynamic segment
\* and every segment after it are dropped.
C26_StaticPrefix ==
    MemberResolved =>
        /\ symout[1].local = chain_root(tcase.expr).sym
        /\ symout[1].path = static_prefix(accessors(tcase.expr))

\* what member_to_root_and_path builds: every statically known segment of
\* the chain in order, the dynamic ones left out wherever they stand
C26_StaticSegments ==
    MemberResolved =>
        /\ symout[1].local = chain_root(tcase.expr).sym
        /\ symout[1].path
              = FlatSeq([i \in 1..Len(accessors(tcase.expr)) |->
                            prop_segment(accessors(tcase.expr)[i])])

\* the candidates of a chain before deduplication
RawCandidates(ch) == FlatSeq([i \in 1..Len(ch) |-> node_candidates(ch[i])])

SameCandidate(c, d) == c.reason = d.reason /\ c.target = d.target

NoDupCandidates(cs) ==
    \A i, j \in 1..Len(cs) : i # j => ~SameCandidate(cs[i], cs[j])

FirstIndex(cs, c) == CHOOSE i \in 1..Len(cs) : cs[i] = c /\ \A j \in 1..(i - 1) : cs[j] # c

\* C9: rank_candidates of every chain has no two entries with equal
\* (reason, target), holds exactly the candidates of the chain, in the order
\* of their first occurrence; the list attached to the element, which is the
\* ranked list plus at most the element's own callsite, has no duplicate
\* either.
C9_RankDedup ==
    LET raw == RawCandidates(chain)
        out == rank_candidates(chain)
    IN  /\ NoDupCandidates(out)
        /\ {out[i] : i \in 1..Len(out)} = {raw[i] : i \in 1..Len(raw)}
        /\ \A i \in 1..(Len(out) - 1) : FirstIndex(raw, out[i]) < FirstIndex(raw, out[i + 1])
        /\ tphase \in {"refs", "done"} =>
              /\ NoDupCandidates(cands)
              /\ Len(cands) \in {Len(out), Len(out) + 1}
              /\ SubSeq(cands, 1, Len(out)) = out

\* a chain with repeated candidates was ranked, and the element's own
\* callsite was already among them
C9_Witness ==
    /\ tphase = "done"
    /\ Len(RawCandidates(chain)) > Len(rank_candidates(chain))
    /\ cands = rank_candidates(chain)
    /\ \E i \in 1..Len(cands) :
          /\ cands[i].reason = "callsite"
          /\ cands[i].target = span_file_lines(tcase.elem.span)

-----------------------------------------------------------------------------
(* The files of a build *)

\* declarations of a transformed file (no cyclic initializers)
FileDecls ==
    << ImportDecl("named", "imp", 1, Sp(1, 3), None, "./user"),
       DeclOuterX,
       DeclInnerX,
       FnDecl("f", 1, Sp(61, 61), Sp(61, 69)),
       VarDecl("userName", 1, Sp(71, 78), Some(Ident("imp", 1, Sp(75, 77)))) >>

\* expressions written in attributes and children
JExprs ==
    { StrV("s", Sp(201, 204)),
      Ident("userName", 1, Sp(261, 268)),
      Call(Ident("f", 1, Sp(271, 271)), <<Arg(InnerX)>>, Sp(271, 279)),
      Cond(OuterX, NumV("1", Sp(206, 206)), OuterX, Sp(206, 211)) }

Host(tag, attrs, children, lo, ohi, hi) ==
    JSXElement(JSXIdent(tag, "lower", Sp(lo + 1, lo + 2)), attrs, children, Sp(lo, ohi), Sp(lo, hi))
Comp(tag, attrs, children, lo, ohi, hi) ==
    JSXElement(JSXIdent(tag, "upper", Sp(lo + 1, lo + 2)), attrs, children, Sp(lo, ohi), Sp(lo, hi))

\* <div title={e} id="main">text<Card v={e}/><Card/></div>
TreeHostWithComponents(e) ==
    Host("div", <<JSXAttr("title", ExprValue(e)), JSXAttr("id", LitStr("main"))>>,
         << JSXText(Sp(612, 615)),
            Comp("Card", <<JSXAttr("v", ExprValue(e))>>, << >>, 621, 635, 635),
            Comp("Card", << >>, << >>, 641, 648, 648) >>,
         601, 610, 660)

\* <Page v={e}><span>{e}</span></Page>
TreeComponentRoot(e) ==
    Comp("Page", <<JSXAttr("v", ExprValue(e))>>,
         <<Host("span", << >>, <<JSXExprContainer(e)>>, 711, 716, 730)>>,
         701, 709, 740)

\* <Leaf {...e}>{e}text</Leaf>
TreeComponentLeaf(e) ==
    Comp("Leaf", <<SpreadElement(e)>>, <<JSXExprContainer(e), JSXText(Sp(815, 818))>>,
         801, 809, 830)

\* <div title={"a:" + userName}/>
TitleLit == StrV("a:", Sp(2011, 2014))
TitleUser == Ident("userName", 1, Sp(2016, 2023))
TreeTitle ==
    Host("div", <<JSXAttr("title", ExprValue(Bin(TitleLit, TitleUser, Sp(2011, 2023))))>>,
         << >>, 2001, 2025, 2025)

RepoAttr == JSXAttr("codepress-github-repo-name", LitStr("theirs/repo"))
BranchAttr == JSXAttr("codepress-github-branch", LitStr("theirs"))

FixedTrees ==
    { TreeTitle,
      \* <Outer><Inner/></Outer>
      Comp("Outer", << >>, <<Comp("Inner", << >>, << >>, 911, 918, 918)>>, 901, 908, 930),
      \* <><A/><div/></>
      JSXFragment(<<Comp("A", << >>, << >>, 1001, 1005, 1005),
                    Host("div", << >>, << >>, 1011, 1016, 1016)>>),
      \* <html><body><div/></body></html>
      Host("html", << >>,
           <<Host("body", << >>, <<Host("div", << >>, << >>, 1121, 1126, 1126)>>,
                  1111, 1116, 1136)>>,
           1101, 1106, 1146),
      \* a div that already carries both attributes
      Host("div", <<RepoAttr, BranchAttr>>, <<Host("span", << >>, << >>, 1211, 1216, 1216)>>,
           1201, 1206, 1226),
      \* a body that already carries the repository attribute only
      Host("body", <<RepoAttr>>, <<Host("p", << >>, << >>, 1311, 1316, 1316)>>,
           1301, 1306, 1326),
      \* <section><Foo.Bar/><svg:rect/><_x/></section>
      Host("section", << >>,
           << JSXElement(JSXMemberExpr("Foo", "Bar"), << >>, << >>, Sp(1411, 1418), Sp(1411, 1418)),
              JSXElement(JSXNamespacedName("svg", "rect"), << >>, << >>,
                         Sp(1421, 1428), Sp(1421, 1428)),
              JSXElement(JSXIdent("_x", "other", Sp(1432, 1433)), << >>, << >>,
                         Sp(1431, 1438), Sp(1431, 1438)) >>,
           1401, 1409, 1450),
      \* <section><div/><div/></section>
      Host("section", << >>,
           << Host("div", << >>, << >>, 1511, 1516, 1516),
              Host("div", << >>, << >>, 1521, 1526, 1526) >>,
           1501, 1509, 1540),
      \* <div><Outer><p><Inner/></p></Outer></div>
      Host("div", << >>,
           <<Comp("Outer", << >>,
                  <<Host("p", << >>, <<Comp("Inner", << >>, << >>, 1631, 1638, 1638)>>,
                         1621, 1623, 1645)>>,
                  1611, 1618, 1655)>>,
           1601, 1605, 1665),
      \* <List><><li/><Item/></></List>
      Comp("List", << >>,
           <<JSXFragment(<<Host("li", << >>, << >>, 1711, 1714, 1714),
                           Comp("Item", << >>, << >>, 1721, 1727, 1727)>>)>>,
           1701, 1707, 1740),
      \* <div codepress-data-fp="..."><span/></div>, instrumented before
      Host("div", <<JSXAttr("codepress-data-fp",
                            LitStr([file |-> <<"before.tsx">>, lines |-> <<1, 1>>]))>>,
           <<Host("span", << >>, << >>, 2211, 2217, 2217)>>, 2201, 2209, 2230),
      \* <Menu items={userName}><><li/></></Menu>
      Comp("Menu", <<JSXAttr("items", ExprValue(Ident("userName", 1, Sp(2113, 2120))))>>,
           <<JSXFragment(<<Host("li", << >>, << >>, 2131, 2134, 2134)>>)>>,
           2101, 2124, 2150),
      \* <div data-codepress-symbol-refs="..." id="k"><Card/></div>
      Host("div", <<JSXAttr("data-codepress-symbol-refs", LitStr(<<"theirs">>)),
                    JSXAttr("id", LitStr("k"))>>,
           <<Comp("Card", << >>, << >>, 1911, 1918, 1918)>>, 1901, 1909, 1930),
      \* <Row v={f()}/> with the call spanning the element's lines
      Comp("Row", <<JSXAttr("v", ExprValue(Call(Ident("f", 1, Sp(1805, 1805)), << >>,
                                                 Sp(1801, 1810))))>>,
           << >>, 1801, 1810, 1810) }

InputTrees ==
    FixedTrees
    \cup { TreeHostWithComponents(e) : e \in JExprs }
    \cup { TreeComponentRoot(e) : e \in JExprs }
    \cup { TreeComponentLeaf(e) : e \in JExprs }

File(decls, root) == [decls |-> decls, root |-> root]

\* The configuration map handed to new(): repo_name and branch_name are
\* taken out of it; any other key, such as a list of component names to leave
\* alone, stays in the map, which is dropped.
Configs ==
    { [repo_name |-> None, branch_name |-> None, skip_components |-> {}],
      [repo_name |-> Some("org/repo"), branch_name |-> Some("main"), skip_components |-> {}],
      [repo_name |-> Some("org/repo"), branch_name |-> None, skip_components |-> {}],
      [repo_name |-> None, branch_name |-> None, skip_components |-> {"Card", "Page"}] }

\* the second file of a build: the first one again, or one of two others
SecondRoots(first) ==
    {first, Host("div", << >>, << >>, 1011, 1016, 1016),
     TreeHostWithComponents(StrV("s", Sp(201, 204)))}

-----------------------------------------------------------------------------
(* process_transform, file after file *)

\* module_file once the declaration visitors of Pass 1 have run
decls_module_file(decls) ==
    IF \E i \in 1..Len(decls) :
          \/ decls[i].k = "Import" /\ ~is_dummy(decls[i].span)
          \/ /\ decls[i].k = "Var" /\ IsSome(decls[i].init)
             /\ has_ident(Unwrap(decls[i].init)) /\ ~is_dummy(decls[i].span)
    THEN Some(normalize_filename(RawFileName))
    ELSE None

\* the element of the function ensure_provider_inline prepends to the module:
\* function __CPProvider({ value, children }) {
\*   return <__CPX.Provider value={value}>{children}</__CPX.Provider>; }
CPXProviderElement ==
    JSXElement(JSXMemberExpr("__CPX", "Provider"),
               <<JSXAttr("value", ExprValue(Ident("value", 0, DUMMY_SP)))>>,
               <<JSXExprContainer(Ident("children", 0, DUMMY_SP))>>,
               DUMMY_SP, DUMMY_SP)

\* the JSX of the module once the provider runtime is prepended (the import,
\* the context and its displayName carry dummy spans and no JSX)
ensure_provider_inline(items) == <<CPXProviderElement>> \o items

\* visit_mut_module: program.visit_mut_with(&mut transform)
pass1_program(cfg, b, decls, items, flag) ==
    Eval(LAMBDA r : [program |-> r.nodes, flag |-> r.ctx.flag],
         visit_mut_children(cfg, b, ensure_provider_inline(items),
                            Ctx(flag, decls_module_file(decls), None)))

\* program.visit_mut_with(&mut elider)
pass2_program(items) == elide_children(items)

PipelineInit ==
    /\ ppc = "new"
    /\ config \in Configs
    /\ \E d \in {FileDecls, << >>}, r1 \in InputTrees :
          \E r2 \in SecondRoots(r1) : files = <<File(d, r1), File(d, r2)>>
    /\ fidx = 1
    /\ program = <<files[1].root>>
    /\ bindings = EmptyMap
    /\ outputs = << >>
    /\ GLOBAL_ATTRIBUTES_ADDED = FALSE

\* CodePressTransform::new and collect_bindings
CollectBindings ==
    /\ UNCHANGED <<tvars, cvars, svars>>
    /\ ppc = "new"
    /\ bindings' = collect_bindings(files[fidx].decls)
    /\ program' = <<files[fidx].root>>
    /\ ppc' = "pass1"
    /\ UNCHANGED <<config, files, fidx, outputs, GLOBAL_ATTRIBUTES_ADDED>>

\* Pass 1 over the whole program
Pass1 ==
    /\ UNCHANGED <<tvars, cvars, svars>>
    /\ ppc = "pass1"
    /\ LET r == pass1_program(config, bindings, files[fidx].decls, program,
                              GLOBAL_ATTRIBUTES_ADDED)
       IN  /\ program' = r.program
           /\ GLOBAL_ATTRIBUTES_ADDED' = r.flag
    /\ ppc' = "pass2"
    /\ UNCHANGED <<config, files, fidx, bindings, outputs>>

\* Pass 2 over the whole program
Pass2 ==
    /\ UNCHANGED <<tvars, cvars, svars>>
    /\ ppc = "pass2"
    /\ program' = pass2_program(program)
    /\ ppc' = "return"
    /\ UNCHANGED <<config, files, fidx, bindings, outputs, GLOBAL_ATTRIBUTES_ADDED>>

\* process_transform returns the program; the build goes on to the next file
Return ==
    /\ UNCHANGED <<tvars, cvars, svars>>
    /\ ppc = "return"
    /\ outputs' = Append(outputs, program)
    /\ IF fidx < Len(files)
       THEN fidx' = fidx + 1 /\ ppc' = "new"
       ELSE fidx' = fidx /\ ppc' = "done"
    /\ UNCHANGED <<config, files, program, bindings, GLOBAL_ATTRIBUTES_ADDED>>

Init == TraceIdle /\ PipelineInit /\ FlagIdle

Next == CollectBindings \/ Pass1 \/ Pass2 \/ Return

Spec == Init /\ [][Next]_vars

-----------------------------------------------------------------------------
(* Properties of the pipeline *)

\* the elements of a node, each parent before its children, in document order
RECURSIVE elements_of(_)
elements_of(n) ==
    CASE n.t = "el" ->
            <<n>> \o FlatSeq([i \in 1..Len(n.children) |-> elements_of(n.children[i])])
      [] n.t = "frag" -> FlatSeq([i \in 1..Len(n.children) |-> elements_of(n.children[i])])
      [] OTHER -> << >>

\* the elements of a node in the order Pass 1 finishes them: children first
RECURSIVE postorder(_)
postorder(n) ==
    CASE n.t = "el" ->
            FlatSeq([i \in 1..Len(n.children) |-> postorder(n.children[i])]) \o <<n>>
      [] n.t = "frag" -> FlatSeq([i \in 1..Len(n.children) |-> postorder(n.children[i])])
      [] OTHER -> << >>

\* the tree a program holds for the input tree: its last item, after the
\* injected provider function
view_tree(prog) == prog[Len(prog)]

Count(seq, P(_)) == Cardinality({i \in 1..Len(seq) : P(seq[i])})

IsMarker(e) == e.name.k = "Ident" /\ e.name.sym = "codepress-marker"
IsProvider(e) == e.name.k = "Ident" /\ e.name.sym = "__CPProvider"
IsReserved(e) ==
    \/ e.name.k = "Ident" /\ e.name.sym \in {"codepress-marker", "__CPProvider", "__CPX"}
    \/ e.name.k = "Member" /\ e.name.root \in {"__CPProvider", "__CPX"}
\* a custom component invocation: a name that is no lowercase identifier and
\* is an uppercase identifier, a member expression or a namespaced name
IsInvocation(e) ==
    /\ ~IsReserved(e)
    /\ \/ e.name.k = "Ident" /\ e.name.first = "upper"
       \/ e.name.k \in {"Member", "Ns"}

C2_MarkersElided ==
    /\ ppc = "pass2" =>
          LET els == elements_of(view_tree(program))
          IN  \A j \in 1..Len(els) :
                 IsMarker(els[j]) =>
                     /\ Len(els[j].children) = 1
                     /\ els[j].children[1].t = "el"
                     /\ Len(elide_children(els[j].children)) = 1
                     /\ elide_children(els[j].children)[1].t = "el"
                     /\ elide_element(els[j]).name = els[j].children[1].name
                     /\ elide_element(els[j]).span = els[j].children[1].span
    /\ ppc = "return" =>
          \A k \in 1..Len(program) :
              LET els == elements_of(program[k])
              IN  \A j \in 1..Len(els) : ~IsMarker(els[j])
    /\ \A i \in 1..Len(outputs) : \A k \in 1..Len(outputs[i]) :
          LET els == elements_of(outputs[i][k])
          IN  \A j \in 1..Len(els) : ~IsMarker(els[j])

\* Pass 1 has made a marker inside a marker (an invocation inside an
\* invocation, no markup element around either), Pass 2 is about to run
C2_Witness ==
    /\ ppc = "pass2"
    /\ \E j \in 1..Len(elements_of(view_tree(program))) :
          LET m == elements_of(view_tree(program))[j]
          IN  IsMarker(m) /\ Count(elements_of(m), IsMarker) >= 2

\* a tree with every __CPProvider that has a single child replaced by it
RECURSIVE unwrap_providers(_)
unwrap_providers(n) ==
    CASE n.t = "el" /\ IsProvider(n) /\ Len(n.children) = 1 -> unwrap_providers(n.children[1])
      [] n.t \in {"el", "frag"} ->
            [n EXCEPT !.children = [i \in 1..Len(n.children) |-> unwrap_providers(n.children[i])]]
      [] OTHER -> n

\* a tree without its attributes: names, spans, nesting and sibling order
RECURSIVE shape(_)
shape(n) ==
    CASE n.t = "el" ->
            [t |-> "el", name |-> n.name, span |-> n.span,
             children |-> [i \in 1..Len(n.children) |-> shape(n.children[i])]]
      [] n.t = "frag" ->
            [t |-> "frag", children |-> [i \in 1..Len(n.children) |-> shape(n.children[i])]]
      [] OTHER -> n

\* the attributes but those of the two keys that are merged by replacement
Unmerged(attrs) ==
    LET Keep(a) == ~(a.k = "attr" /\ a.name \in {"data-codepress-symbol-refs",
                                                 "data-codepress-callsite-symbol-refs"})
    IN  SelectSeq(attrs, Keep)

IsPrefix(s, t) == Len(s) <= Len(t) /\ SubSeq(t, 1, Len(s)) = s

IsLitAttr(a, name, value) ==
    /\ a.k = "attr" /\ a.name = name
    /\ IsSome(a.value) /\ Unwrap(a.value).vk = "str" /\ Unwrap(a.value).v = value

\* an attribute this build's configuration stamps
IsStampAttr(a) ==
    \/ /\ IsSome(config.repo_name)
       /\ IsLitAttr(a, "codepress-github-repo-name", Unwrap(config.repo_name))
    \/ /\ IsSome(config.branch_name)
       /\ IsLitAttr(a, "codepress-github-branch", Unwrap(config.branch_name))

\* the element carries an attribute this build's configuration stamps
Stamped(e) == \E k \in 1..Len(e.attrs) : IsStampAttr(e.attrs[k])

\* the number of elements of file i that received the stamp
Received(i) == Count(elements_of(view_tree(outputs[i])), Stamped)

IsEligible(e) == e.name.k = "Ident" /\ e.name.sym \in {"html", "body", "div"}

HasEligible(root) == Count(elements_of(root), IsEligible) > 0

\* the root-eligible element Pass 1 finishes first
FirstEligible(root) ==
    LET po == postorder(root)
    IN  po[CHOOSE j \in 1..Len(po) : IsEligible(po[j]) /\ \A k \in 1..(j - 1) : ~IsEligible(po[k])]

\* the element was written with the attributes the configuration would add
AlreadyCarries(e) ==
    /\ \E k \in 1..Len(e.attrs) :
          e.attrs[k].k = "attr" /\ e.attrs[k].name = "codepress-github-repo-name"
    /\ IsSome(config.branch_name) =>
          \E k \in 1..Len(e.attrs) :
              e.attrs[k].k = "attr" /\ e.attrs[k].name = "codepress-github-branch"

TwoEligibleFiles ==
    /\ ppc = "done" /\ IsSome(config.repo_name)
    /\ HasEligible(files[1].root) /\ HasEligible(files[2].root)

\* C5 (as claimed): two files in a row, repo_name configured, a root-eligible
\* element in each: exactly one element receives the attributes, in file one.
C5_ExactlyOneInFirstFile ==
    TwoEligibleFiles => Received(1) = 1 /\ Received(2) = 0

\* C5 (amended): at most one element receives the attributes and none of the
\* second file does; the one that does is the root-eligible element of the
\* first file that Pass 1 finishes first (children before parents), and it
\* receives nothing exactly when it was written with the attributes already.
C5_AtMostOneInFirstFile ==
    TwoEligibleFiles =>
        LET first == FirstEligible(files[1].root)
            out == elements_of(view_tree(outputs[1]))
        IN  /\ Received(2) = 0
            /\ Received(1) = IF AlreadyCarries(first) THEN 0 ELSE 1
            /\ \A j \in 1..Len(out) : Stamped(out[j]) => out[j].span = first.span
            /\ GLOBAL_ATTRIBUTES_ADDED

\* both files hold a div; the innermost of html > body > div received the
\* attributes and nothing in the second file did
C5_Witness ==
    /\ TwoEligibleFiles
    /\ Count(elements_of(files[1].root), IsEligible) = 3
    /\ Received(1) = 1 /\ Received(2) = 0
    /\ \E j \in 1..Len(elements_of(view_tree(outputs[1]))) :
          LET e == elements_of(view_tree(outputs[1]))[j]
          IN  Stamped(e) /\ e.name.sym = "div"

\* a tree without the attributes of the stamp
RECURSIVE strip_stamp(_)
strip_stamp(n) ==
    LET NotStamp(a) == ~IsStampAttr(a)
    IN  CASE n.t = "el" ->
                [n EXCEPT !.attrs = SelectSeq(@, NotStamp),
                          !.children = [i \in 1..Len(n.children) |-> strip_stamp(n.children[i])]]
          [] n.t = "frag" ->
                [n EXCEPT !.children = [i \in 1..Len(n.children) |-> strip_stamp(n.children[i])]]
          [] OTHER -> n

\* C10: the same file transformed twice under one configuration gives the
\* same program, attribute for attribute, the repository/branch stamp aside.
C10_Deterministic ==
    (ppc = "done" /\ files[1] = files[2]) =>
        /\ Len(outputs[1]) = Len(outputs[2])
        /\ \A k \in 1..Len(outputs[1]) : strip_stamp(outputs[1][k]) = strip_stamp(outputs[2][k])

\* a file with declarations was transformed twice; the first run stamped a
\* div and the second did not, and an element carries three or more candidates
C10_Witness ==
    /\ ppc = "done" /\ files[1] = files[2]
    /\ Len(files[1].decls) > 0
    /\ outputs[1] # outputs[2]
    /\ \E j \in 1..Len(elements_of(view_tree(outputs[2]))) :
          LET e == elements_of(view_tree(outputs[2]))[j]
          IN  /\ IsSome(get_attr_string(e.attrs, "data-codepress-edit-candidates"))
              /\ Len(Unwrap(get_attr_string(e.attrs, "data-codepress-edit-candidates"))) >= 3

\* the string value of an attribute the element is known to carry
attr_string(e, key) == Unwrap(get_attr_string(e.attrs, key))

\* file i of the build is <div title={"a:" + userName}/> in a module with
\* `import { imp } from "./user"` and `const userName = imp`
IsTitleExample(i) == files[i].root = TreeTitle /\ files[i].decls = FileDecls

\* the element's own location, as with_self_callsite builds it
SelfCallsite(e) ==
    Candidate([file |-> normalize_filename(RawFileName),
               lines |-> Unwrap(get_line_info(e.ospan, Some(e.span)))], "callsite")

\* C11 (as claimed): the example element carries the kinds literal, op,
\* ident, import and two candidates, the literal and the import.
C11_FourKindsTwoCandidates ==
    \A i \in 1..Len(outputs) :
        IsTitleExample(i) =>
            LET e == view_tree(outputs[i])
                kinds == attr_string(e, "data-codepress-source-kinds")
                cs == attr_string(e, "data-codepress-edit-candidates")
            IN  /\ {kinds[k] : k \in 1..Len(kinds)} = {"literal", "op", "ident", "import"}
                /\ cs = << Candidate(Loc(TitleLit), "literal"),
                           Candidate(span_file_lines(FileDecls[1].span), "import") >>

\* C11 (amended): the example element carries the kinds ident, import, init,
\* literal, op (sorted), and four candidates in this order: the literal, the
\* initializer of userName (const-init), the import, and the element's own
\* location (callsite).
C11_FiveKindsFourCandidates ==
    \A i \in 1..Len(outputs) :
        IsTitleExample(i) =>
            LET e == view_tree(outputs[i])
            IN  /\ attr_string(e, "data-codepress-source-kinds")
                      = <<"ident", "import", "init", "literal", "op">>
                /\ attr_string(e, "data-codepress-edit-candidates")
                      = << Candidate(Loc(TitleLit), "literal"),
                           Candidate(Loc(Unwrap(FileDecls[5].init)), "const-init"),
                           Candidate(span_file_lines(FileDecls[1].span), "import"),
                           SelfCallsite(TreeTitle) >>

\* the example file was transformed and its div carries candidates
C11_Witness ==
    /\ ppc = "done" /\ IsTitleExample(1)
    /\ Len(attr_string(view_tree(outputs[1]), "data-codepress-edit-candidates")) > 0
    /\ Len(attr_string(view_tree(outputs[1]), "data-codepress-source-kinds")) > 0

\* an invocation with no markup element inside it, as the root of a file
NoMarkupInvocation(root) ==
    /\ root.t = "el" /\ IsInvocation(root)
    /\ \A j \in 1..Len(elements_of(root)) : ~is_host_name(elements_of(root)[j].name)

\* the keys of the elider the element carries as string attributes
CarriedKeys(e) ==
    {k \in {elider_keys[j] : j \in 1..Len(elider_keys)} : IsSome(get_attr_string(e.attrs, k))}

\* after Pass 1 the tree of such a root is provider > marker > invocation,
\* and the marker carries the invocation's location and both symbol-ref lists
MarkerCarriesMetadata ==
    (ppc = "pass2" /\ NoMarkupInvocation(files[fidx].root)) =>
        LET root == files[fidx].root
            prov == view_tree(program)
        IN  /\ IsProvider(prov) /\ Len(prov.children) = 1
            /\ IsMarker(prov.children[1])
            /\ Len(prov.children[1].children) = 1
            /\ prov.children[1].children[1].t = "el"
            /\ prov.children[1].children[1].name = root.name
            /\ prov.children[1].children[1].span = root.span
            /\ CarriedKeys(prov.children[1])
                  = {"data-codepress-callsite", "data-codepress-symbol-refs",
                     "data-codepress-callsite-symbol-refs"}
            /\ attr_string(prov.children[1], "data-codepress-callsite")
                  = encoded_path_value(RawFileName, root.ospan, Some(root.span))

\* Pass 2 on that tree: the marker is gone, the invocation stands in its
\* place and has every key the marker carried among its own attributes
KeysLandOnInvocation ==
    (ppc = "pass2" /\ NoMarkupInvocation(files[fidx].root)) =>
        LET m == view_tree(program).children[1]
            inv == m.children[1]
            after == view_tree(program').children[1]
        IN  /\ IsProvider(view_tree(program'))
            /\ after.name = inv.name /\ after.span = inv.span
            /\ Count(elements_of(view_tree(program')), IsMarker) = 0
            /\ \A k \in CarriedKeys(m) : has_attr(after.attrs, k)
            /\ attr_string(after, "data-codepress-callsite")
                  = attr_string(m, "data-codepress-callsite")
            /\ attr_string(after, "data-codepress-callsite-symbol-refs")
                  = attr_string(m, "data-codepress-callsite-symbol-refs")
            /\ attr_string(after, "data-codepress-symbol-refs")
                  = merge_json_arrays_str(attr_string(inv, "data-codepress-symbol-refs"),
                                          attr_string(m, "data-codepress-symbol-refs"))
            /\ IsPrefix(Unmerged(inv.attrs), Unmerged(after.attrs))

\* C12: a component invocation with no markup ancestor and no markup
\* descendant: after Pass 1 a codepress-marker wraps it and carries its
\* location and symbol references; after Pass 2 the marker is removed and the
\* keys it carried are on the invocation's own attributes.
C12_MarkerThenOwnProps ==
    /\ []MarkerCarriesMetadata
    /\ [][KeysLandOnInvocation]_vars

\* <Leaf {...userName}>..</Leaf> went through both passes: the returned
\* invocation carries its location and the references of its spread
C12_Witness ==
    /\ ppc = "return" /\ fidx = 1
    /\ NoMarkupInvocation(files[1].root)
    /\ IsProvider(view_tree(program))
    /\ LET inv == view_tree(program).children[1]
       IN  /\ inv.name = files[1].root.name
           /\ IsSome(get_attr_string(inv.attrs, "data-codepress-callsite"))
           /\ IsSome(get_attr_string(inv.attrs, "data-codepress-callsite-symbol-refs"))
           /\ Len(attr_string(inv, "data-codepress-callsite-symbol-refs")) > 0

\* The elements of a node in the order Pass 1 finishes them, each with the
\* innermost markup element open around it (host) and the element it is a
\* child of (parent). A marker that Pass 1 builds (it has no span) was never
\* on host_attr_stack; one written in the file is, its tag being lowercase.
RECURSIVE under_hosts(_, _, _)
under_hosts(n, h, p) ==
    CASE n.t = "el" ->
            FlatSeq([i \in 1..Len(n.children) |->
                        under_hosts(n.children[i],
                                    IF is_host_name(n.name) /\ ~(IsMarker(n) /\ is_dummy(n.span))
                                    THEN Some(n) ELSE h,
                                    Some(n))])
            \o <<[e |-> n, host |-> h, parent |-> p]>>
      [] n.t = "frag" ->
            FlatSeq([i \in 1..Len(n.children) |-> under_hosts(n.children[i], h, p)])
      [] OTHER -> << >>

InputElements == under_hosts(files[fidx].root, None, None)
Pass1Elements == under_hosts(view_tree(program), None, None)

\* the element of the Pass 1 tree that was written at the span sp
AfterPass1(sp) ==
    LET Hit(x) == x.e.span = sp
    IN  SelectSeq(Pass1Elements, Hit)[1]

\* the invocations of the file whose innermost open markup element is h
HostedBy(h) ==
    LET Hit(x) == IsInvocation(x.e) /\ x.host = Some(h)
    IN  SelectSeq(InputElements, Hit)

\* the values of the string attributes named key, in attribute order
attr_strings(attrs, key) ==
    LET Hit(a) == /\ a.k = "attr" /\ a.name = key
                  /\ IsSome(a.value) /\ Unwrap(a.value).vk = "str"
        hits == SelectSeq(attrs, Hit)
    IN  [i \in 1..Len(hits) |-> Unwrap(hits[i].value).v]

CallsiteOf(e) == encoded_path_value(element_filename(e.span), e.ospan, Some(e.span))

\* the references of the invocation's own attribute and child expressions
ShallowRefs(e) ==
    collect_shallow_from_jsx_element(bindings, e, decls_module_file(files[fidx].decls)).symrefs

\* the deep references Pass 1 attached to the invocation itself
DeepRefs(e) ==
    LET own == attr_strings(AfterPass1(e.span).e.attrs, "data-codepress-symbol-refs")
    IN  own[Len(own)]

\* C17 (as claimed): after Pass 1 the location of every invocation that has
\* a markup ancestor is among the data-codepress-callsite attributes of the
\* innermost one.
C17_CallsiteOnInnermostHost ==
    ppc = "pass2" =>
        \A j \in 1..Len(InputElements) :
            (IsInvocation(InputElements[j].e) /\ IsSome(InputElements[j].host)) =>
                \E a \in 1..Len(attr_strings(
                                   AfterPass1(Unwrap(InputElements[j].host).span).e.attrs,
                                   "data-codepress-callsite")) :
                    attr_strings(AfterPass1(Unwrap(InputElements[j].host).span).e.attrs,
                                 "data-codepress-callsite")[a]
                        = CallsiteOf(InputElements[j].e)

\* C17 (amended): after Pass 1 an invocation is the child of a
\* codepress-marker exactly when no markup element was open at its visit.
\* Otherwise the innermost open markup element holds, in visit order, the
\* invocations' callsite symbol refs and symbol refs merged behind its own,
\* and the invocation's location only if it had no string
\* data-codepress-callsite before: of several invocations under one markup
\* element the first alone leaves its location there.
C17_MarkerIffNoHost ==
    ppc = "pass2" =>
        /\ \A j \in 1..Len(InputElements) :
              IsInvocation(InputElements[j].e) =>
                  LET x == InputElements[j]
                      y == AfterPass1(x.e.span)
                  IN  /\ IsSome(y.parent)
                      /\ IsSome(x.host) <=> ~IsMarker(Unwrap(y.parent))
                      /\ IsSome(x.host) => IsProvider(Unwrap(y.parent))
        /\ Count(elements_of(view_tree(program)), IsMarker)
              = Cardinality({j \in 1..Len(InputElements) :
                               /\ IsInvocation(InputElements[j].e)
                               /\ ~IsSome(InputElements[j].host)})
        /\ \A j \in 1..Len(InputElements) :
              LET h == InputElements[j].e
                  inv == HostedBy(h)
                  after == AfterPass1(h.span).e.attrs
                  before(key) == attr_strings(h.attrs, key)
                  first(key) == IF Len(before(key)) > 0 THEN before(key)[1] ELSE << >>
              IN  Len(inv) > 0 =>
                    /\ attr_strings(after, "data-codepress-symbol-refs")[1]
                          = first("data-codepress-symbol-refs")
                            \o FlatSeq([i \in 1..Len(inv) |-> DeepRefs(inv[i].e)])
                    /\ attr_strings(after, "data-codepress-callsite-symbol-refs")[1]
                          = first("data-codepress-callsite-symbol-refs")
                            \o FlatSeq([i \in 1..Len(inv) |-> ShallowRefs(inv[i].e)])
                    /\ attr_strings(after, "data-codepress-callsite")
                          = before("data-codepress-callsite")
                            \o (IF Len(before("data-codepress-callsite")) > 0 THEN << >>
                                ELSE <<CallsiteOf(inv[1].e)>>)
                            \o <<CallsiteOf(h)>>

\* <div title={e} id="main">text<Card v={e}/><Card/></div> after Pass 1: no
\* marker, and the div carries the location of the first Card and its own
C17_Witness ==
    /\ ppc = "pass2"
    /\ files[fidx].root.t = "el"
    /\ is_host_name(files[fidx].root.name)
    /\ Len(HostedBy(files[fidx].root)) = 2
    /\ Count(elements_of(view_tree(program)), IsMarker) = 0
    /\ Count(elements_of(view_tree(program)), IsProvider) = 2
    /\ Len(ShallowRefs(HostedBy(files[fidx].root)[1].e)) > 0
    /\ attr_strings(view_tree(program).attrs, "data-codepress-callsite")
          = <<CallsiteOf(HostedBy(files[fidx].root)[1].e), CallsiteOf(files[fidx].root)>>

-----------------------------------------------------------------------------
(* Files that are written with codepress-marker elements of their own *)

TheirFile == <<"theirs.tsx">>
TheirCandidates == <<Candidate([file |-> TheirFile, lines |-> <<1, 1>>], "literal")>>
TheirRefs == <<SymbolRef(TheirFile, "t", << >>, [file |-> TheirFile, lines |-> <<1, 1>>])>>
TheirCallsite == [file |-> TheirFile, lines |-> <<1, 9>>]

\* the five keys of the elider, as string attributes
TheirPayload ==
    << JSXAttr("data-codepress-edit-candidates", LitStr(TheirCandidates)),
       JSXAttr("data-codepress-source-kinds", LitStr(<<"literal">>)),
       JSXAttr("data-codepress-callsite", LitStr(TheirCallsite)),
       JSXAttr("data-codepress-symbol-refs", LitStr(TheirRefs)),
       JSXAttr("data-codepress-callsite-symbol-refs", LitStr(TheirRefs)) >>

\* <codepress-marker ...>children</codepress-marker> as written in a file
Marker(attrs, children, lo, ohi, hi) ==
    JSXElement(JSXIdent(wrapper_tag, "lower", Sp(lo + 1, lo + 2)), attrs, children,
               Sp(lo, ohi), Sp(lo, hi))

MarkedTrees ==
    { \* a marker without children
      Marker(TheirPayload, << >>, 3001, 3009, 3009),
      \* a marker around text
      Marker(TheirPayload, <<JSXText(Sp(3111, 3115))>>, 3101, 3109, 3130),
      \* a marker around an expression
      Marker(TheirPayload, <<JSXExprContainer(Ident("userName", 1, Sp(3161, 3168)))>>,
             3151, 3159, 3180),
      \* a marker around two markup elements
      Marker(TheirPayload,
             << Host("div", << >>, << >>, 3211, 3216, 3216),
                Host("span", << >>, << >>, 3221, 3227, 3227) >>,
             3201, 3209, 3240),
      \* a marker around text and one markup element
      Marker(TheirPayload,
             << JSXText(Sp(3311, 3313)), Host("div", << >>, << >>, 3315, 3320, 3320) >>,
             3301, 3309, 3340),
      \* a marker around one markup element
      Marker(TheirPayload, <<Host("div", << >>, << >>, 3411, 3416, 3416)>>, 3401, 3409, 3430),
      \* a marker around one invocation that holds a markup element
      Marker(TheirPayload,
             <<Comp("Card", << >>, <<Host("p", << >>, << >>, 3521, 3524, 3524)>>,
                    3511, 3517, 3535)>>,
             3501, 3509, 3550),
      \* a marker around two invocations
      Marker(<<JSXAttr("id", LitStr("m"))>>,
             << Comp("Card", << >>, << >>, 3611, 3618, 3618),
                Comp("Card", <<JSXAttr("v", ExprValue(Ident("userName", 1, Sp(3627, 3634))))>>,
                     << >>, 3621, 3638, 3638) >>,
             3601, 3609, 3650),
      \* <section><codepress-marker/><codepress-marker><em/></codepress-marker></section>
      Host("section", << >>,
           << Marker(TheirPayload, << >>, 3711, 3719, 3719),
              Marker(TheirPayload, <<Host("em", << >>, << >>, 3731, 3735, 3735)>>,
                     3721, 3729, 3745) >>,
           3701, 3709, 3760),
      \* a marker around a marker around <b/>, and <i/>
      Marker(<<JSXAttr("data-codepress-callsite", LitStr(TheirCallsite))>>,
             << Marker(TheirPayload, <<Host("b", << >>, << >>, 3821, 3824, 3824)>>,
                       3811, 3819, 3830),
                Host("i", << >>, << >>, 3841, 3844, 3844) >>,
             3801, 3809, 3860),
      \* a marker around a marker around <u/>
      Marker(<<JSXAttr("data-codepress-callsite", LitStr(TheirCallsite))>>,
             <<Marker(TheirPayload, <<Host("u", << >>, << >>, 3921, 3924, 3924)>>,
                      3911, 3919, 3930)>>,
             3901, 3909, 3950) }

MarkedInit ==
    /\ TraceIdle
    /\ FlagIdle
    /\ ppc = "new"
    /\ config \in Configs
    /\ \E d \in {FileDecls, << >>}, r \in MarkedTrees : files = <<File(d, r)>>
    /\ fidx = 1
    /\ program = <<files[1].root>>
    /\ bindings = EmptyMap
    /\ outputs = << >>
    /\ GLOBAL_ATTRIBUTES_ADDED = FALSE

SpecMarked == MarkedInit /\ [][Next]_vars

\* a marker Pass 2 replaces by its child: exactly one child, an element
WellFormed(e) == IsMarker(e) /\ Len(e.children) = 1 /\ e.children[1].t = "el"
Malformed(e) == IsMarker(e) /\ ~WellFormed(e)

HasWellFormed(n) == Count(elements_of(n), WellFormed) > 0

\* the elements of the program's tree with the span of e
SameSpan(prog, e) ==
    LET Hit(x) == x.span = e.span
    IN  SelectSeq(elements_of(view_tree(prog)), Hit)

\* the Pass 2 step leaves every marker without exactly one element child
\* where it is, with its attributes and its children; a child is changed only
\* by what Pass 2 does inside that child
MalformedStays ==
    ppc = "pass2" =>
        LET pre == elements_of(view_tree(program))
        IN  /\ \A j \in 1..Len(pre) :
                  Malformed(pre[j]) =>
                      LET post == SameSpan(program', pre[j])
                      IN  /\ Len(post) = 1
                          /\ IsMarker(post[1])
                          /\ post[1].attrs = pre[j].attrs
                          /\ Len(post[1].children) = Len(pre[j].children)
                          /\ \A c \in 1..Len(pre[j].children) :
                                /\ post[1].children[c].t = pre[j].children[c].t
                                /\ ~HasWellFormed(pre[j].children[c]) =>
                                      post[1].children[c] = pre[j].children[c]
            /\ Count(elements_of(view_tree(program')), IsMarker) = Count(pre, Malformed)
            /\ ~HasWellFormed(view_tree(program)) => program' = program

-----------------------------------------------------------------------------
(* Where Pass 2 puts the payload of a marker *)

\* a markup element of the file, not a marker Pass 1 built
RealHost(e) == is_host_name(e.name) /\ ~IsMarker(e)

\* the markup elements below e in depth-first pre-order, fragments included
MarkupBelow(e) == SelectSeq(Tail(elements_of(e)), RealHost)

\* the elements below e that are reached through element children alone
RECURSIVE element_descendants(_)
element_descendants(e) ==
    LET IsEl(ch) == ch.t = "el"
        els == SelectSeq(e.children, IsEl)
    IN  FlatSeq([i \in 1..Len(els) |-> <<els[i]>> \o element_descendants(els[i])])

\* the element of the program after the step that was written at e's span
AfterStep(e) == SameSpan(program', e)[1]

\* the marker's callsite symbol refs are merged behind those of d
Landed(m, d) ==
    /\ has_attr(AfterStep(d).attrs, "data-codepress-callsite")
    /\ attr_strings(AfterStep(d).attrs, "data-codepress-callsite-symbol-refs")
          = << merge_json_arrays_str(
                  IF IsSome(get_attr_string(d.attrs, "data-codepress-callsite-symbol-refs"))
                  THEN attr_string(d, "data-codepress-callsite-symbol-refs") ELSE << >>,
                  attr_string(m, "data-codepress-callsite-symbol-refs")) >>

\* the Pass 2 step, for every marker with one element child: the payload is
\* in the first markup element of hosts when there is one, and the child's
\* own attributes are then as they were; else it is on the child
PayloadLands(hosts(_)) ==
    ppc = "pass2" =>
        LET pre == elements_of(view_tree(program))
        IN  \A j \in 1..Len(pre) :
                WellFormed(pre[j]) =>
                    LET c == pre[j].children[1]
                    IN  IF Len(hosts(c)) > 0
                        THEN /\ Landed(pre[j], hosts(c)[1])
                             /\ AfterStep(c).attrs = c.attrs
                        ELSE Landed(pre[j], c)

\* C18 (as claimed): Pass 2 merges the payload of a marker with one element
\* child into the first markup descendant of that child in depth-first
\* pre-order, fragments looked through, and onto the child's own attributes
\* only when the child's subtree holds no markup element.
C18_FirstMarkupDescendant == [][PayloadLands(MarkupBelow)]_vars

\* the same with the descendants first_host_descendant_mut looks at, those
\* reached through element children alone
C18_ThroughElementsOnly ==
    [][PayloadLands(LAMBDA c : SelectSeq(element_descendants(c), RealHost))]_vars

\* the attributes named key, whatever their value
attrs_named(attrs, key) ==
    LET Hit(a) == a.k = "attr" /\ a.name = key
    IN  SelectSeq(attrs, Hit)

\* the Pass 2 step on data-codepress-callsite, for every element the file
\* wrote: one that has the attribute keeps exactly what it has; one that has
\* none ends with at most one, the value of a marker
CallsiteFirstWriter ==
    ppc = "pass2" =>
        LET pre == elements_of(view_tree(program))
            key == "data-codepress-callsite"
        IN  \A j \in 1..Len(pre) :
                ~is_dummy(pre[j].span) =>
                    LET before == attrs_named(pre[j].attrs, key)
                        after == attrs_named(AfterStep(pre[j]).attrs, key)
                    IN  IF Len(before) > 0 THEN after = before
                        ELSE /\ Len(after) <= 1
                             /\ Len(after) = 1 =>
                                   \E m \in 1..Len(pre) :
                                       /\ WellFormed(pre[m])
                                       /\ after[1].value
                                             = LitStr(attr_string(pre[m], key))

\* C19: when Pass 2 copies data-codepress-callsite from a marker to a
\* destination, the key is written only if the destination has no attribute
\* of that name; a value already there is neither overwritten nor duplicated.
C19_ScalarFirstWriterWins == [][CallsiteFirstWriter]_vars

\* <Page v={userName}><span>{userName}</span></Page> went through Pass 2:
\* the span holds the symbol refs of Page's marker behind its own, and for
\* data-codepress-callsite only its own location, not Page's
C19_Witness ==
    /\ ppc = "return"
    /\ files[fidx].root = TreeComponentRoot(Ident("userName", 1, Sp(261, 268)))
    /\ files[fidx].decls = FileDecls
    /\ IsProvider(view_tree(program))
    /\ LET page == view_tree(program).children[1]
           span == page.children[1]
       IN  /\ page.name = files[fidx].root.name
           /\ ~has_attr(page.attrs, "data-codepress-callsite")
           /\ attr_strings(span.attrs, "data-codepress-callsite")
                 = <<CallsiteOf(files[fidx].root.children[1])>>
           /\ CallsiteOf(files[fidx].root.children[1]) # CallsiteOf(files[fidx].root)
           /\ Len(attr_strings(span.attrs, "data-codepress-callsite-symbol-refs")) = 1
           /\ Len(attr_strings(span.attrs, "data-codepress-callsite-symbol-refs")[1])
                 > Len(ShallowRefs(files[fidx].root.children[1]))

\* the value the elements hold for key before the step, "[]" for none
array_before(e, key) ==
    IF IsSome(get_attr_string(e.attrs, key)) THEN attr_string(e, key) ELSE << >>

\* the element copy_payload_keys writes to for a marker around c: the first
\* markup element below c through element children, c when there is none
destination(c) ==
    LET hosts == SelectSeq(element_descendants(c), RealHost)
    IN  IF Len(hosts) > 0 THEN hosts[1] ELSE c

\* the Pass 2 step on the array-valued keys of a marker that is the root of
\* the file and has one element child: the destination ends with its own
\* entries followed by the marker's, for every such key the marker carries
ArraysConcatenated ==
    (/\ ppc = "pass2"
     /\ WellFormed(view_tree(program))
     /\ ~is_dummy(view_tree(program).span)) =>
        LET m == view_tree(program)
            d == destination(m.children[1])
        IN  \A key \in {"data-codepress-edit-candidates", "data-codepress-symbol-refs",
                         "data-codepress-callsite-symbol-refs"} :
                IsSome(get_attr_string(m.attrs, key)) =>
                    attr_strings(AfterStep(d).attrs, key)[1]
                        = array_before(d, key) \o attr_string(m, key)

\* C20 (as claimed): in Pass 2 every array-valued key a marker carries, edit
\* candidates as well as symbol refs, ends on the destination as the
\* destination's entries followed by the marker's, none dropped.
C20_EveryArrayKeyMerged == [][ArraysConcatenated]_vars

\* the same for the two symbol-ref keys alone
SymbolRefsConcatenated ==
    (/\ ppc = "pass2"
     /\ WellFormed(view_tree(program))
     /\ ~is_dummy(view_tree(program).span)) =>
        LET m == view_tree(program)
            d == destination(m.children[1])
        IN  /\ \A key \in {"data-codepress-symbol-refs",
                            "data-codepress-callsite-symbol-refs"} :
                  IsSome(get_attr_string(m.attrs, key)) =>
                      attr_strings(AfterStep(d).attrs, key)
                          = <<array_before(d, key) \o attr_string(m, key)>>
            /\ has_attr(d.attrs, "data-codepress-edit-candidates") =>
                  attrs_named(AfterStep(d).attrs, "data-codepress-edit-candidates")
                      = attrs_named(d.attrs, "data-codepress-edit-candidates")

\* only the two symbol-ref lists of a marker are concatenated behind the
\* destination's; edit candidates the destination already has stay as they are
C20_OnlySymbolRefsMerged == [][SymbolRefsConcatenated]_vars

-----------------------------------------------------------------------------
(* What Pass 1 leaves on the elements it visits *)

\* C21 (as claimed): after Pass 1 an element of the file whose tag is a
\* reserved synthetic name has the attributes it was written with, and every
\* other element of the file carries codepress-data-fp.
C21_SyntheticUntouched ==
    ppc = "pass2" =>
        \A j \in 1..Len(InputElements) :
            IF IsReserved(InputElements[j].e)
            THEN AfterPass1(InputElements[j].e.span).e.attrs = InputElements[j].e.attrs
            ELSE has_attr(AfterPass1(InputElements[j].e.span).e.attrs, "codepress-data-fp")

\* the same for the visit of the synthetic element itself: what it carries
\* after Pass 1 beyond its own attributes are the three keys a component
\* invocation below it stamps on its enclosing lowercase-tag element
C21_OnlyDescendantsStamp ==
    ppc = "pass2" =>
        \A j \in 1..Len(InputElements) :
            IF IsReserved(InputElements[j].e)
            THEN LET before == InputElements[j].e.attrs
                     after == AfterPass1(InputElements[j].e.span).e.attrs
                     Stamped3(a) == a.k = "attr" /\ a.name \in
                                      {"data-codepress-callsite-symbol-refs",
                                       "data-codepress-symbol-refs", "data-codepress-callsite"}
                     Other(a) == ~Stamped3(a)
                 IN  /\ SelectSeq(after, Other) = SelectSeq(before, Other)
                     /\ Len(HostedBy(InputElements[j].e)) = 0 => after = before
            ELSE has_attr(AfterPass1(InputElements[j].e.span).e.attrs, "codepress-data-fp")

\* C22 (as claimed): after Pass 1 every instrumented element carries exactly
\* one codepress-data-fp attribute, also when it was written with one.
C22_ExactlyOneFp ==
    ppc = "pass2" =>
        \A j \in 1..Len(InputElements) :
            ~IsReserved(InputElements[j].e) =>
                Len(attrs_named(AfterPass1(InputElements[j].e.span).e.attrs,
                                "codepress-data-fp")) = 1

\* what the push does: one more codepress-data-fp than the element had, the
\* last of them the element's own location
C22_OneMoreFp ==
    ppc = "pass2" =>
        \A j \in 1..Len(InputElements) :
            ~IsReserved(InputElements[j].e) =>
                LET before == attrs_named(InputElements[j].e.attrs, "codepress-data-fp")
                    after == attrs_named(AfterPass1(InputElements[j].e.span).e.attrs,
                                         "codepress-data-fp")
                IN  after = Append(before,
                                   create_encoded_path_attr(
                                       element_filename(InputElements[j].e.span),
                                       InputElements[j].e.ospan,
                                       Some(InputElements[j].e.span)))

\* an invocation whose tag is in the configured list of components to skip
IsSkipped(e) ==
    IsInvocation(e) /\ e.name.k = "Ident" /\ e.name.sym \in config.skip_components

\* C23 (as claimed): after Pass 1 an invocation whose tag is in the
\* configured skip-list has the attributes it was written with and is the
\* child of no marker and no provider, and the elements below it carry
\* codepress-data-fp.
C23_SkippedNotWrapped ==
    ppc = "pass2" =>
        \A j \in 1..Len(InputElements) :
            IsSkipped(InputElements[j].e) =>
                LET x == InputElements[j].e
                    y == AfterPass1(x.span)
                IN  /\ y.e.attrs = x.attrs
                    /\ IsSome(y.parent) =>
                          ~IsProvider(Unwrap(y.parent)) /\ ~IsMarker(Unwrap(y.parent))
                    /\ \A c \in 2..Len(elements_of(x)) :
                          has_attr(AfterPass1(elements_of(x)[c].span).e.attrs,
                                   "codepress-data-fp")

\* what Pass 1 does with every invocation, listed or not: a provider is put
\* around it and it carries codepress-data-fp and its three payload keys
C23_EveryInvocationWrapped ==
    ppc = "pass2" =>
        \A j \in 1..Len(InputElements) :
            IsInvocation(InputElements[j].e) =>
                LET y == AfterPass1(InputElements[j].e.span)
                IN  /\ IsSome(y.parent)
                    /\ IsProvider(Unwrap(y.parent)) \/ IsMarker(Unwrap(y.parent))
                    /\ \A k \in {"codepress-data-fp", "data-codepress-edit-candidates",
                                  "data-codepress-source-kinds", "data-codepress-symbol-refs"} :
                          has_attr(y.e.attrs, k)

\* the attribute names the engine writes
EngineKeys ==
    {"codepress-data-fp", "data-codepress-edit-candidates", "data-codepress-source-kinds",
     "data-codepress-symbol-refs", "data-codepress-callsite-symbol-refs",
     "data-codepress-callsite"}

\* the file was written without any attribute of the engine
WrittenPlain(root) ==
    \A j \in 1..Len(elements_of(root)) :
        \A k \in EngineKeys : ~has_attr(elements_of(root)[j].attrs, k)

\* C27 (as claimed): in the tree the pipeline returns for a file written
\* without engine attributes, no element has two attributes of the same
\* engine name.
C27_NoDuplicateKeys ==
    \A i \in 1..Len(outputs) :
        WrittenPlain(files[i].root) =>
            \A j \in 1..Len(elements_of(view_tree(outputs[i]))) :
                \A k \in EngineKeys :
                    Len(attrs_named(elements_of(view_tree(outputs[i]))[j].attrs, k)) <= 1

\* the same for the elements no component invocation has stamped: the
\* invocations themselves and the markup elements with no invocation below
\* them that has them for innermost markup ancestor
C27_NoDuplicateUnlessStamped ==
    ppc = "return" =>
        \A j \in 1..Len(InputElements) :
            (WrittenPlain(files[fidx].root) /\ Len(HostedBy(InputElements[j].e)) = 0) =>
                \A k \in EngineKeys :
                    Len(attrs_named(SameSpan(program, InputElements[j].e)[1].attrs, k)) <= 1

-----------------------------------------------------------------------------
(* Pass 1 call by call: visit_mut_jsx_element and host_attr_stack *)

\* the elements that visit_mut_children_with reaches next below a child
\* list: the elements themselves and those inside fragments
RECURSIVE near_elements(_)
near_elements(chs) ==
    FlatSeq([i \in 1..Len(chs) |->
                CASE chs[i].t = "el" -> <<chs[i]>>
                  [] chs[i].t = "frag" -> near_elements(chs[i].children)
                  [] OTHER -> << >>])

VisitElements == elements_of(vroot)

index_of(e) == CHOOSE k \in 1..Len(VisitElements) : VisitElements[k].span = e.span

\* the calls the visit of element j (0: the module) makes, in order
visit_children(j) ==
    LET near == near_elements(IF j = 0 THEN <<vroot>> ELSE VisitElements[j].children)
    IN  [i \in 1..Len(near) |-> index_of(near[i])]

Frame(el, next, host) == [el |-> el, next |-> next, is_host_pre |-> host]

\* (mutant) a return that leaves the pointer on the stack
pop_if_host_never(stack, is_host_pre) == stack

\* if is_host_pre { self.host_attr_stack.pop(); }
pop_if_host(stack, is_host_pre) ==
    IF is_host_pre /\ Len(stack) > 0 THEN SubSeq(stack, 1, Len(stack) - 1) ELSE stack

VisitRoots == InputTrees \cup MarkedTrees

VisitInit ==
    /\ TraceIdle /\ PipelineIdle
    /\ thr = << >>
    /\ vroot \in VisitRoots
    /\ vframes = <<Frame(0, 1, FALSE)>>
    /\ host_attr_stack = << >>
    /\ vreplaced = {}

\* the innermost call reaches its next child element: the call of
\* visit_mut_jsx_element on it starts, and a lowercase tag pushes the
\* pointer to its attributes
VisitEnter ==
    /\ UNCHANGED <<tvars, pvars, cvars, vroot, vreplaced>>
    /\ Len(vframes) > 0
    /\ LET top == vframes[Len(vframes)]
           kids == visit_children(top.el)
       IN  /\ top.next <= Len(kids)
           /\ LET j == kids[top.next]
                  host == is_host_name(VisitElements[j].name)
              IN  /\ vframes' = Append([vframes EXCEPT ![Len(vframes)].next = @ + 1],
                                       Frame(j, 1, host))
                  /\ host_attr_stack' = IF host THEN Append(host_attr_stack, j)
                                        ELSE host_attr_stack

\* the children of a synthetic element are visited: it returns early
VisitSynthetic ==
    /\ UNCHANGED <<tvars, pvars, cvars, vroot, vreplaced>>
    /\ Len(vframes) > 1
    /\ LET top == vframes[Len(vframes)]
       IN  /\ top.next > Len(visit_children(top.el))
           /\ is_synthetic_element(VisitElements[top.el].name)
           /\ host_attr_stack' = pop_if_host(host_attr_stack, top.is_host_pre)
    /\ vframes' = SubSeq(vframes, 1, Len(vframes) - 1)

\* the children of any other element are visited: it is tagged; a custom
\* component invocation is moved into its wrapper and its provider; the
\* call returns
VisitTag ==
    /\ UNCHANGED <<tvars, pvars, cvars, vroot>>
    /\ Len(vframes) > 1
    /\ LET top == vframes[Len(vframes)]
           name == VisitElements[top.el].name
       IN  /\ top.next > Len(visit_children(top.el))
           /\ ~is_synthetic_element(name)
           /\ vreplaced' = IF ~top.is_host_pre /\ is_custom_component_name(name)
                           THEN vreplaced \cup {top.el} ELSE vreplaced
           /\ host_attr_stack' = pop_if_host(host_attr_stack, top.is_host_pre)
    /\ vframes' = SubSeq(vframes, 1, Len(vframes) - 1)

VisitNext == VisitEnter \/ VisitSynthetic \/ VisitTag

SpecVisit == VisitInit /\ [][VisitNext]_vars

\* the elements of the open calls that pushed, outermost first
OpenHosts ==
    LET Pushed(f) == f.is_host_pre
        open == SelectSeq(vframes, Pushed)
    IN  [i \in 1..Len(open) |-> open[i].el]

\* the stack holds exactly the open lowercase-tag elements, in the order
\* they were entered, none of them moved; it is empty between top-level
\* elements
StackOfOpenHosts ==
    /\ host_attr_stack = OpenHosts
    /\ \A i \in 1..Len(host_attr_stack) :
          /\ is_host_name(VisitElements[host_attr_stack[i]].name)
          /\ host_attr_stack[i] \notin vreplaced
    /\ Len(vframes) = 1 => host_attr_stack = << >>

\* a call that returns leaves the stack as it was when the call started
ReturnRestores ==
    Len(vframes') < Len(vframes) =>
        host_attr_stack'
            = SubSeq(host_attr_stack, 1,
                     Len(host_attr_stack) - (IF vframes[Len(vframes)].is_host_pre THEN 1 ELSE 0))

\* C28: during Pass 1 host_attr_stack holds the open markup ancestors: every
\* entry is the attribute list of a lowercase-tag element whose visit has
\* started and not finished and which has not been moved or replaced; each
\* visit pops what it pushed on both of its exits; the stack is empty when
\* the visit of a top-level element has returned.
C28_BalancedHostStack == []StackOfOpenHosts /\ [][ReturnRestores]_vars

\* inside <codepress-marker><Card><p/></Card></codepress-marker>: the visit
\* of <p> is open below the marker's, both pointers are on the stack
C28_Witness ==
    /\ Len(vframes) = 4
    /\ Len(host_attr_stack) = 2
    /\ IsMarker(VisitElements[host_attr_stack[1]])
    /\ VisitElements[host_attr_stack[2]].name.sym = "p"

-----------------------------------------------------------------------------
(* The inserted wrappers in the deep walk of their ancestors *)

\* the candidates of every data-codepress-edit-candidates attribute of e
CandidatesOn(e) == FlatSeq(attr_strings(e.attrs, "data-codepress-edit-candidates"))

HasSentinel(e) ==
    \E k \in 1..Len(CandidatesOn(e)) : CandidatesOn(e)[k].target = UnknownLoc

\* every element of the written tree and its tag have a real location
RealSpans(root) ==
    \A j \in 1..Len(elements_of(root)) :
        /\ ~is_dummy(elements_of(root)[j].span)
        /\ ~is_dummy(elements_of(root)[j].ospan)

\* an invocation strictly below e: what Pass 1 wraps before it reaches e
InvocationBelow(e) ==
    \E j \in 2..Len(elements_of(e)) : IsInvocation(elements_of(e)[j])

\* C29 (as claimed): with a source map and real locations on the written
\* tree, no candidate of any element of the returned tree has the target
\* unknown:0-0.
C29_NoSentinelTarget ==
    \A i \in 1..Len(outputs) :
        (source_map /\ WrittenPlain(files[i].root) /\ RealSpans(files[i].root)) =>
            \A j \in 1..Len(elements_of(view_tree(outputs[i]))) :
                ~HasSentinel(elements_of(view_tree(outputs[i]))[j])

\* the same for the elements with no invocation below them, whose deep walk
\* meets no inserted wrapper
C29_NoSentinelWithoutWrappers ==
    \A i \in 1..Len(outputs) :
        (source_map /\ WrittenPlain(files[i].root) /\ RealSpans(files[i].root)) =>
            \A j \in 1..Len(elements_of(files[i].root)) :
                ~InvocationBelow(elements_of(files[i].root)[j]) =>
                    \A k \in 1..Len(elements_of(view_tree(outputs[i]))) :
                        elements_of(view_tree(outputs[i]))[k].span
                            = elements_of(files[i].root)[j].span
                        => ~HasSentinel(elements_of(view_tree(outputs[i]))[k])

-----------------------------------------------------------------------------
(* Pass 2 applied to its own result *)

\* the markers Pass 2 would still remove from a tree: one child, an element
Elidable(e) == IsMarker(e) /\ Len(e.children) = 1 /\ e.children[1].t = "el"

\* C30: HoistAndElide applied to the tree the pipeline returned gives that
\* tree again, element for element and attribute for attribute, also for
\* the files written with codepress-marker elements, nested ones included.
C30_Pass2Idempotent ==
    \A i \in 1..Len(outputs) : pass2_program(outputs[i]) = outputs[i]

\* a marker written around two children, the first a marker around <b/>:
\* the inner one is gone with its references on <b/>, the outer one is kept
C30_Witness ==
    /\ Len(outputs) = 1
    /\ files[1].root.span = Sp(3801, 3860)
    /\ IsMarker(view_tree(outputs[1]))
    /\ Len(view_tree(outputs[1]).children) = 2
    /\ view_tree(outputs[1]).children[1].name.sym = "b"
    /\ attr_strings(view_tree(outputs[1]).children[1].attrs,
                    "data-codepress-symbol-refs") = <<TheirRefs>>
    /\ Count(elements_of(files[1].root), Elidable) = 1
    /\ Count(elements_of(view_tree(outputs[1])), Elidable) = 0

-----------------------------------------------------------------------------
(* File transforms running concurrently on one GLOBAL_ATTRIBUTES_ADDED *)

\* number of transforms running at once
Transforms == 2

\* the trees the concurrent transforms work on
ConcurrentRoots ==
    { Host("html", << >>,
           <<Host("body", << >>, <<Host("div", << >>, << >>, 1121, 1126, 1126)>>,
                  1111, 1116, 1136)>>,
           1101, 1106, 1146),
      Host("div", <<RepoAttr, BranchAttr>>, <<Host("span", << >>, << >>, 1211, 1216, 1216)>>,
           1201, 1206, 1226),
      Host("section", << >>,
           <<Comp("Card", << >>, << >>, 1511, 1516, 1516),
             Host("div", << >>, << >>, 1521, 1526, 1526)>>,
           1501, 1509, 1540),
      Comp("Page", << >>, <<Host("span", << >>, << >>, 711, 716, 730)>>, 701, 709, 740) }

\* Pass 1 of one transform as far as the flag goes: per element, in the order
\* the elements are finished, the load (line 2239) and then the pushes and
\* the store (lines 2244-2255); out collects the attributes after that
Transform(root) ==
    [pc |-> "load", els |-> postorder(root), idx |-> 1, loaded |-> FALSE, out |-> << >>]

ConcurrentInit ==
    /\ TraceIdle
    /\ ppc = "idle"
    /\ config \in Configs
    /\ files \in [1..Transforms -> {File(<< >>, r) : r \in ConcurrentRoots}]
    /\ fidx = 0 /\ program = << >> /\ bindings = EmptyMap /\ outputs = << >>
    /\ GLOBAL_ATTRIBUTES_ADDED = FALSE
    /\ thr = [t \in 1..Transforms |-> Transform(files[t].root)]
    /\ vroot = JSXFragment(<< >>) /\ vframes = << >>
    /\ host_attr_stack = << >> /\ vreplaced = {}

\* GLOBAL_ATTRIBUTES_ADDED.load(Ordering::Relaxed) of one transform
FlagLoad ==
    /\ UNCHANGED <<tvars, pvars, svars>>
    /\ \E t \in 1..Len(thr) :
          /\ thr[t].pc = "load"
          /\ thr' = [thr EXCEPT ![t].loaded = GLOBAL_ATTRIBUTES_ADDED, ![t].pc = "stamp"]

\* what follows the load at the element: on a root-eligible element the
\* pushes and GLOBAL_ATTRIBUTES_ADDED.store(true, Ordering::Relaxed)
StampStore ==
    /\ UNCHANGED <<tvars, ppc, config, files, fidx, program, bindings, outputs, svars>>
    /\ \E t \in 1..Len(thr) :
          /\ thr[t].pc = "stamp"
          /\ LET el == thr[t].els[thr[t].idx]
                 st == stamp_once(config, el.name, el.attrs, thr[t].loaded)
             IN  /\ thr' = [thr EXCEPT ![t].out = Append(@, st.attrs),
                                       ![t].idx = @ + 1,
                                       ![t].pc = IF thr[t].idx = Len(thr[t].els)
                                                 THEN "done" ELSE "load"]
                 /\ GLOBAL_ATTRIBUTES_ADDED' = (st.stored \/ GLOBAL_ATTRIBUTES_ADDED)

ConcurrentNext == FlagLoad \/ StampStore

SpecConcurrent == ConcurrentInit /\ [][ConcurrentNext]_vars

\* the elements that received an attribute, over all transforms
StampedElements ==
    UNION { { <<t, j>> : j \in {k \in 1..Len(thr[t].out) :
                                  thr[t].out[k] # thr[t].els[k].attrs} } :
            t \in 1..Len(thr) }

\* C4 (as claimed): whatever the interleaving of the loads and stores of the
\* flag, at most one element of the build receives the attributes.
C4_AtMostOneStamped == Cardinality(StampedElements) <= 1

=============================================================================
